---- MODULE Spec2Model ----
(***************************************************************************)
(* Chunk delivery core of the media server: the extraction pipeline        *)
(* (extractChunkWithConcurrencyControl / extractChunkFromTorrent), the     *)
(* source handle manager (downloadTorrent) and the routes that drive them. *)
(*                                                                         *)
(* Node runs the handlers on one thread.  A handler runs from its start to *)
(* its first real suspension as one step; a settled promise queues the     *)
(* continuations that await it on the microtask queue (micro), and no      *)
(* timer, stream event or new request runs before that queue is drained.   *)
(*                                                                         *)
(* tracker.js and parallelTracker.js each hold their own instance of the   *)
(* maps below and the same code for the pipeline; a behaviour of this      *)
(* module drives one instance.                                             *)
(***************************************************************************)
EXTENDS Integers, Sequences, FiniteSets, TLC

----------------------------------------------------------------------------
(* Bounds of the model *)

MaxReq == 6          \* requests issued in one burst
MaxChunk == 3        \* chunk indices requested are 0..MaxChunk
MaxFaults == 4       \* transient read faults the source produces in one behaviour
MaxSaveFail == 1     \* failures of fs.writeFileSync in one behaviour
MaxRetryReq == 2     \* requests issued in one behaviour with read faults
MaxDupReq == 3       \* requests issued in one behaviour with read faults and waiters
MaxFairReq == 4      \* requests where progress is checked
MaxHandleReq == 2    \* requests issued in one behaviour of the tracker

(* Program constants *)

maxConcurrentExtractions == 3
maxRetries == 3
chunkSize == 2 * 1024 * 1024
AttemptTimeoutMs == 15000
BackoffUnitMs == 1000

(* Inputs *)

MovieA == <<"A", " ", "1">>     \* the title "A 1"
MovieB == <<"B">>
Movies == {MovieA, MovieB}
Chunks == 0..MaxChunk
ChunkTexts == {<<c>> : c \in Chunks} \cup {<<0, 1>>}     \* "0", "1", ... and "01"
Max(S) == CHOOSE x \in S : \A y \in S : y <= x
Min(S) == CHOOSE x \in S : \A y \in S : x <= y
Req == 1..Max({MaxReq, MaxRetryReq, MaxDupReq, MaxHandleReq, MaxFairReq})
NoTorrent == 0
NoMovie == <<>>                 \* a request body without the field
Links == {"magnet"}
NoLink == ""

\* Length of the video file of a movie's torrent (videoFile.length): A holds
\* chunks 0..3 (the last one short), B holds chunk 0 only.
FileLength(m) == IF m = MovieA THEN 7 * 1024 * 1024 ELSE 1024 * 1024

----------------------------------------------------------------------------
VARIABLES
  req,                   \* request id -> route, arguments, position in its handler
  resp,                  \* request id -> responses the handler chain wrote to res, in order
  ext,                   \* request id -> the extraction (extractChunkFromTorrent promise) it started
  chunkExtractionQueue,  \* Map chunkKey -> extraction promise (named by its owner request)
  activeExtractions,     \* Map movie -> Set of chunk indices
  chunkStore,            \* files of the chunks directory: <<sanitized movie, text of the chunk index>>
  micro,                 \* microtask queue: requests whose awaited promise has settled
  budget,                \* what the environment may still do: requests, faults, failed saves
  torrents,              \* handles opened with client.add, in order
  activeTorrents,        \* Map movie -> handle
  magnetLinks,           \* Map movie -> magnet link
  WebTorrent,            \* the dynamically imported module: "unloaded", "loaded" or "missing"
  chunkRegistry,         \* { movie: { chunkIndex: [peerId, ...] } }
  peerConnections,       \* Map peerId -> peer info (lastSeen, ...)
  now,                   \* Date.now()
  regResp,               \* the answer to the latest request to the registry
  regBudget,             \* requests to the registry the environment may still make
  workers,               \* this.workers: slot index -> worker record (its number in recs)
  recs,                  \* the worker records made by createWorker, each with its thread
  workerQueue,           \* this.workerQueue: the tasks waiting for a worker
  tasks,                 \* the calls of downloadChunkParallel, in order, with their promises
  inbox,                 \* record -> the tasks its thread received and has not finished
  timers,                \* the armed 30 s timers of assignChunkToWorker
  respawns,              \* slot index -> armed 1 s timers of restartWorker
  streamBuffer,          \* this.streamBuffer: movie -> array of chunk data or null
  streams,               \* the calls of startParallelStream with their issue timers
  schedBudget,           \* what the environment of the engine may still do
  availableEngines,      \* the array of the engines that serve no stream
  streamingEngines,      \* Map streamId -> engine
  engineBuffers,         \* engine -> the movies its streamBuffer has an array for
  starting,              \* handlers of start_parallel_stream at their await of startParallelStream
  readers,               \* the Readable streams made for stream_movie, in order
  poolResp,              \* the latest answer of the two stream routes
  poolBudget             \* requests to the two stream routes the environment may still make

pipeVars == <<req, resp, ext, chunkExtractionQueue, activeExtractions, chunkStore, micro>>
handleVars == <<torrents, activeTorrents, magnetLinks, WebTorrent>>
trackerVars == <<pipeVars, handleVars, budget>>
regVars == <<chunkRegistry, peerConnections, now, regResp, regBudget>>
schedVars == <<workers, recs, workerQueue, tasks, inbox, timers, respawns, streamBuffer, streams,
               schedBudget>>
poolVars == <<availableEngines, streamingEngines, engineBuffers, starting, readers, poolResp,
              poolBudget>>
outsideTracker == <<regVars, schedVars, poolVars>>
outsideRegistry == <<trackerVars, schedVars, poolVars>>
outsideScheduler == <<trackerVars, regVars, poolVars>>
outsidePool == <<trackerVars, regVars, schedVars>>
vars == <<trackerVars, regVars, schedVars, poolVars>>

----------------------------------------------------------------------------
(* JavaScript Map *)

MapHas(f, k) == k \in DOMAIN f
MapSet(f, k, v) == [x \in (DOMAIN f) \cup {k} |-> IF x = k THEN v ELSE f[x]]
MapDelete(f, k) == [x \in (DOMAIN f) \ {k} |-> f[x]]
EmptyMap == [x \in {} |-> 0]

(* movie.replace(/[^a-zA-Z0-9\-_]/g, '_') *)

SafeChars ==
  {"a","b","c","d","e","f","g","h","i","j","k","l","m","n","o","p","q","r","s","t","u",
   "v","w","x","y","z","A","B","C","D","E","F","G","H","I","J","K","L","M","N","O","P",
   "Q","R","S","T","U","V","W","X","Y","Z","0","1","2","3","4","5","6","7","8","9","-","_"}
sanitizedMovie(m) == [i \in 1..Len(m) |-> IF m[i] \in SafeChars THEN m[i] ELSE "_"]

(* The chunkIndex of a query is text, written here as its sequence of digits *)

RECURSIVE parseInt(_)
parseInt(t) == IF t = <<>> THEN 0 ELSE 10 * parseInt(SubSeq(t, 1, Len(t) - 1)) + t[Len(t)]

\* `${chunkIndex}` of a number: its decimal digits without leading zeros
RECURSIVE ToText(_)
ToText(n) == IF n < 10 THEN <<n>> ELSE Append(ToText(n \div 10), n % 10)

\* path.join(__dirname, "chunks", `${sanitizedMovie}.chunk${chunkIndex}`)
chunkPath(m, t) == <<sanitizedMovie(m), t>>

\* `${movie}_${chunkIndex}`: chunkIndex is an integer, so the text after the
\* last underscore is the index and the key determines the pair.
chunkKey(m, c) == <<m, c>>

----------------------------------------------------------------------------
(* The part of the state that the pipeline's functions change, as a record *)

PS == [req |-> req, resp |-> resp, ext |-> ext, q |-> chunkExtractionQueue,
       act |-> activeExtractions, micro |-> micro,
       tor |-> torrents, at |-> activeTorrents, wt |-> WebTorrent]

Commit(S) ==
  /\ req' = S.req
  /\ resp' = S.resp
  /\ ext' = S.ext
  /\ chunkExtractionQueue' = S.q
  /\ activeExtractions' = S.act
  /\ micro' = S.micro
  /\ torrents' = S.tor
  /\ activeTorrents' = S.at
  /\ WebTorrent' = S.wt

NoExt == [st |-> "none", retryCount |-> 0, reads |-> 0, backoffs |-> <<>>,
          waiters |-> <<>>, err |-> "none"]
NoReq == [route |-> "none", movie |-> MovieA, link |-> NoLink, text |-> <<0>>, chunk |-> 0,
          pc |-> "new", torrent |-> NoTorrent, dt |-> "none", att |-> 0]

headersSent(S, r) == S.resp[r] # <<>>
Respond(S, r, rec) == [S EXCEPT !.resp[r] = Append(@, rec)]
RespondUnlessSent(S, r, rec) == IF headersSent(S, r) THEN S ELSE Respond(S, r, rec)

\* res.status(500).json({ ..., retry: true }) of extractChunkFromTorrent
ExtractionFailure(reason) ==
  [status |-> 500, retry |-> "true", src |-> reason, body |-> <<>>]
\* res.send(chunkData) with X-Chunk-Source torrent
ChunkFromTorrent(m, c) ==
  [status |-> 200, retry |-> "unset", src |-> "torrent", body |-> <<m, c>>]
\* res.sendFile(chunkPath): the bytes of the file at that path
ChunkFromStore(m, t) ==
  [status |-> 200, retry |-> "unset", src |-> "cached", body |-> chunkPath(m, t)]

----------------------------------------------------------------------------
(* extractChunkFromTorrent: the promise executor up to the first read *)

\* torrent.files is filled once the torrent's metadata is known
HasVideoFile(S, h) == h # NoTorrent /\ S.tor[h].ready
OutOfRange(m, c) == c * chunkSize >= FileLength(m)
\* retryCount < maxRetries (RetryAllowedOffByOne is a bound that counts the first
\* attempt as a retry)
RetryAllowedOffByOne(retryCount) == retryCount + 1 < maxRetries
RetryAllowed(retryCount) == retryCount < maxRetries
BackoffDelay(retryCount) == BackoffUnitMs * retryCount

\* attemptExtraction: videoFile.createReadStream and the 15 s timer
attemptExtraction(S, r) ==
  [S EXCEPT !.ext[r].st = "reading", !.ext[r].reads = @ + 1]

\* the catch of the executor: answer 500 with retry: true, reject
SetupError(S, r, reason) ==
  LET S1 == RespondUnlessSent(S, r, ExtractionFailure(reason))
  IN [S1 EXCEPT !.ext[r].st = "rejected", !.ext[r].err = reason]

extractChunkFromTorrent(S, r) ==
  LET m == S.req[r].movie
      c == S.req[r].chunk
      h == S.req[r].torrent
  IN IF ~HasVideoFile(S, h) THEN SetupError(S, r, "NoVideoFile")
     ELSE IF OutOfRange(m, c) THEN SetupError(S, r, "OutOfRange")
     ELSE attemptExtraction(S, r)

----------------------------------------------------------------------------
(* extractChunkWithConcurrencyControl *)

\* finally { movieExtractions.delete(chunkIndex); chunkExtractionQueue.delete(chunkKey) }
CleanupKeepsSlot(S, r) ==
  [S EXCEPT !.q = MapDelete(@, chunkKey(S.req[r].movie, S.req[r].chunk))]
Cleanup(S, r) ==
  LET m == S.req[r].movie
      c == S.req[r].chunk
  IN [S EXCEPT !.act[m] = @ \ {c}, !.q = MapDelete(@, chunkKey(m, c))]

CapReached(size) == size >= maxConcurrentExtractions

\* movieExtractions.add, extractChunkFromTorrent, chunkExtractionQueue.set, await
StartExtraction(S, r) ==
  LET m == S.req[r].movie
      c == S.req[r].chunk
      S1 == [S EXCEPT !.act[m] = @ \cup {c}]
      S2 == extractChunkFromTorrent(S1, r)
      S3 == [S2 EXCEPT !.q = MapSet(@, chunkKey(m, c), r), !.req[r].pc = "extracting"]
  IN IF S3.ext[r].st = "rejected" THEN [S3 EXCEPT !.micro = Append(@, r)] ELSE S3

\* from "Initialize active extractions set" on: the polling loop and the start
WaitForSlot(S, r) ==
  LET m == S.req[r].movie
      S1 == IF MapHas(S.act, m) THEN S ELSE [S EXCEPT !.act = MapSet(@, m, {})]
  IN IF CapReached(Cardinality(S1.act[m]))
       THEN [S1 EXCEPT !.req[r].pc = "polling"]
       ELSE StartExtraction(S1, r)

\* Is the key being extracted?  Then the request awaits the queued promise.
extractChunkWithConcurrencyControl(S, r, h) ==
  LET m == S.req[r].movie
      c == S.req[r].chunk
      k == chunkKey(m, c)
      S0 == [S EXCEPT !.req[r].torrent = h]
  IN IF MapHas(S0.q, k)
       THEN LET e == S0.q[k]
                S1 == [S0 EXCEPT !.req[r].pc = "attached", !.req[r].att = e,
                                 !.ext[e].waiters = Append(@, r)]
            IN IF S1.ext[e].st \in {"resolved", "rejected"}
                 THEN [S1 EXCEPT !.micro = Append(@, r)]
                 ELSE S1
       ELSE WaitForSlot(S0, r)

\* the catch of the route around the pipeline
HandlerCatch(S, r) ==
  LET S1 == IF S.req[r].route = "download_chunk_parallel"
              THEN Respond(S, r, [status |-> 500, retry |-> "unset",
                                  src |-> "handler", body |-> <<>>])
              ELSE RespondUnlessSent(S, r, [status |-> 500, retry |-> "true",
                                            src |-> "handler", body |-> <<>>])
  IN [S1 EXCEPT !.req[r].pc = "done"]

----------------------------------------------------------------------------
(* downloadTorrent *)

NewTorrent(m, r, kind) ==
  [movie |-> m, ready |-> FALSE, failed |-> FALSE, by |-> r, kind |-> kind,
   listeners |-> <<>>]

\* "Check if torrent already exists": activeTorrents.has(movie) and existingTorrent.ready
\* (ReadyHandleExistsInverted is the check with the test of torrent.ready inverted)
ReadyHandleExistsInverted(S, m) == MapHas(S.at, m) /\ ~S.tor[S.at[m]].ready
ReadyHandleExists(S, m) == MapHas(S.at, m) /\ S.tor[S.at[m]].ready

\* new Promise(...): client.add, activeTorrents.set, the listeners and the 60 s timer
AddTorrent(S, r, m) ==
  LET h == Len(S.tor) + 1
  IN [S EXCEPT !.tor = Append(@, NewTorrent(m, r, "downloadTorrent")),
               !.at = MapSet(@, m, h),
               !.req[r].pc = "acquire", !.req[r].torrent = h, !.req[r].dt = "pending"]

downloadTorrent(S, r, m) ==
  IF ReadyHandleExists(S, m)
    THEN [S EXCEPT !.req[r].pc = "acquire", !.req[r].torrent = S.at[m],
                   !.req[r].dt = "resolved", !.micro = Append(@, r)]
    ELSE IF S.wt # "loaded"
      THEN [S EXCEPT !.req[r].pc = "init"]
      ELSE AddTorrent(S, r, m)

----------------------------------------------------------------------------
(* Routes *)

Arrived == {r \in Req : req[r].pc # "new"}
NextReq == Cardinality(Arrived) + 1
Idle == micro = <<>>

Arrive(r) ==
  /\ Idle
  /\ budget.req > 0
  /\ r = NextReq
  /\ r \in Req

MagnetStored == [status |-> 200, retry |-> "unset", src |-> "success", body |-> <<>>]

\* POST /store_magnet
StoreMagnet(r, m, link) ==
  /\ Arrive(r)
  /\ LET S0 == [PS EXCEPT !.req[r] = [NoReq EXCEPT !.route = "store_magnet", !.movie = m,
                                                   !.link = link]]
     IN IF m = NoMovie \/ link = NoLink
          THEN /\ Commit([Respond(S0, r, [status |-> 400, retry |-> "unset",
                                          src |-> "required", body |-> <<>>])
                            EXCEPT !.req[r].pc = "done"])
               /\ UNCHANGED magnetLinks
               /\ budget' = [budget EXCEPT !.req = @ - 1]
          ELSE /\ magnetLinks' = MapSet(magnetLinks, m, link)
               /\ Commit(downloadTorrent(S0, r, m))
               /\ budget' = [budget EXCEPT !.req = @ - 1]
  /\ UNCHANGED chunkStore
  /\ UNCHANGED outsideTracker

\* GET /download_chunk_parallel
DownloadChunkParallel(r, m, t) ==
  /\ Arrive(r)
  /\ LET S0 == [PS EXCEPT !.req[r] = [NoReq EXCEPT !.route = "download_chunk_parallel",
                                                   !.movie = m, !.text = t,
                                                   !.chunk = parseInt(t)]]
         torrent == IF MapHas(activeTorrents, m) THEN activeTorrents[m] ELSE NoTorrent
         start == torrent = NoTorrent /\ MapHas(magnetLinks, m)
     IN /\ budget' = [budget EXCEPT !.req = @ - 1]
        /\ IF start
             THEN Commit(downloadTorrent(S0, r, m))
             ELSE IF torrent = NoTorrent
               THEN Commit([Respond(S0, r, [status |-> 404, retry |-> "unset",
                                            src |-> "no torrent", body |-> <<>>])
                              EXCEPT !.req[r].pc = "done"])
               ELSE Commit(extractChunkWithConcurrencyControl(S0, r, torrent))
  /\ UNCHANGED <<chunkStore, magnetLinks>>
  /\ UNCHANGED outsideTracker

\* torrent.once('ready', readyHandler), torrent.once('error', errorHandler) and the timer
ListenForReady(S, r, h) ==
  [S EXCEPT !.tor[h].listeners = Append(@, r), !.req[r].pc = "waitReady",
            !.req[r].torrent = h]

\* client.add of the route itself: no listener of downloadTorrent on this handle
StartTorrentForChunk(S, r, m) ==
  LET h == Len(S.tor) + 1
      S1 == [S EXCEPT !.tor = Append(@, NewTorrent(m, r, "download_chunk")),
                      !.at = MapSet(@, m, h)]
  IN ListenForReady(S1, r, h)

NotAvailable(status, retry, why) ==
  [status |-> status, retry |-> retry, src |-> why, body |-> <<>>]

\* GET /download_chunk
DownloadChunk(r, m, t) ==
  /\ Arrive(r)
  /\ LET S0 == [PS EXCEPT !.req[r] = [NoReq EXCEPT !.route = "download_chunk",
                                                   !.movie = m, !.text = t,
                                                   !.chunk = parseInt(t)]]
         torrent == IF MapHas(activeTorrents, m) THEN activeTorrents[m] ELSE NoTorrent
     IN /\ budget' = [budget EXCEPT !.req = @ - 1]
        /\ IF chunkPath(m, t) \in chunkStore
             THEN Commit([Respond(S0, r, ChunkFromStore(m, t)) EXCEPT !.req[r].pc = "done"])
           ELSE IF torrent # NoTorrent /\ torrents[torrent].ready
             THEN Commit(extractChunkWithConcurrencyControl(S0, r, torrent))
           ELSE IF torrent # NoTorrent
             THEN Commit(ListenForReady(S0, r, torrent))
           ELSE IF MapHas(magnetLinks, m)
             THEN IF WebTorrent = "loaded"
                    THEN Commit(StartTorrentForChunk(S0, r, m))
                    ELSE Commit([S0 EXCEPT !.req[r].pc = "init"])
           ELSE Commit([Respond(S0, r, NotAvailable(404, "false", "no source"))
                          EXCEPT !.req[r].pc = "done"])
  /\ UNCHANGED <<chunkStore, magnetLinks>>
  /\ UNCHANGED outsideTracker

----------------------------------------------------------------------------
(* Continuations on the microtask queue *)

\* after `await extractionPromise`: the finally block, then return or rethrow
AfterOwnExtraction(S, r) ==
  LET S1 == Cleanup(S, r)
  IN IF S1.ext[r].st = "resolved"
       THEN [S1 EXCEPT !.req[r].pc = "done"]
       ELSE HandlerCatch(S1, r)

\* after `await chunkExtractionQueue.get(chunkKey)`
AfterExistingExtraction(S, r) ==
  LET m == S.req[r].movie
      c == S.req[r].chunk
      e == S.req[r].att
  IN IF S.ext[e].st = "resolved"
       THEN IF chunkPath(m, ToText(c)) \in chunkStore
              THEN [Respond(S, r, ChunkFromStore(m, ToText(c))) EXCEPT !.req[r].pc = "done"]
              ELSE WaitForSlot(S, r)
       ELSE HandlerCatch(S, r)

\* after `await downloadTorrent(movie, magnetLink)`
AfterDownloadTorrentUncaught(S, r) ==
  IF S.req[r].route = "store_magnet" /\ S.req[r].dt = "resolved"
    THEN [Respond(S, r, MagnetStored) EXCEPT !.req[r].pc = "done"]
    ELSE IF S.req[r].dt = "resolved"
      THEN extractChunkWithConcurrencyControl(S, r, S.req[r].torrent)
      ELSE HandlerCatch(S, r)
AfterDownloadTorrent(S, r) ==
  IF S.req[r].route = "store_magnet"
    THEN [Respond(S, r, MagnetStored) EXCEPT !.req[r].pc = "done"]
    ELSE IF S.req[r].dt = "resolved"
      THEN extractChunkWithConcurrencyControl(S, r, S.req[r].torrent)
      ELSE HandlerCatch(S, r)

Microtask ==
  /\ micro # <<>>
  /\ LET r == Head(micro)
         S == [PS EXCEPT !.micro = Tail(@)]
     IN CASE req[r].pc = "extracting" -> Commit(AfterOwnExtraction(S, r))
          [] req[r].pc = "attached" -> Commit(AfterExistingExtraction(S, r))
          [] req[r].pc = "acquire" -> Commit(AfterDownloadTorrent(S, r))
  /\ UNCHANGED <<chunkStore, magnetLinks, budget>>
  /\ UNCHANGED outsideTracker

----------------------------------------------------------------------------
(* Timers and events of the pipeline *)

\* the promise settles: its owner awaited it first, then the waiters in order
Settle(S, e, st, reason) ==
  [S EXCEPT !.ext[e].st = st, !.ext[e].err = reason,
            !.micro = @ \o <<e>> \o S.ext[e].waiters]

\* the 500 ms timer of the polling loop
PollWake(r) ==
  /\ Idle
  /\ req[r].pc = "polling"
  /\ IF CapReached(Cardinality(activeExtractions[req[r].movie]))
       THEN UNCHANGED <<req, resp, ext, chunkExtractionQueue, activeExtractions, micro,
                        torrents, activeTorrents, WebTorrent>>
       ELSE Commit(StartExtraction(PS, r))
  /\ UNCHANGED <<chunkStore, magnetLinks, budget>>
  /\ UNCHANGED outsideTracker

\* chunkStream 'end' with bytesReceived > 0: save, send, resolve
StreamEnd(e, saved) ==
  /\ Idle
  /\ ext[e].st = "reading"
  /\ ~saved => budget.saveFails > 0
  /\ LET m == req[e].movie
         c == req[e].chunk
         S1 == RespondUnlessSent(PS, e, ChunkFromTorrent(m, c))
     IN /\ chunkStore' = IF saved THEN chunkStore \cup {chunkPath(m, ToText(c))} ELSE chunkStore
        /\ Commit(Settle(S1, e, "resolved", "none"))
  /\ budget' = [budget EXCEPT !.saveFails = IF saved THEN @ ELSE @ - 1]
  /\ UNCHANGED magnetLinks
  /\ UNCHANGED outsideTracker

\* the 15 s timer, 'end' with bytesReceived = 0, or 'error' of chunkStream
StreamFault(e, kind) ==
  /\ Idle
  /\ ext[e].st = "reading"
  /\ budget.faults > 0
  /\ budget' = [budget EXCEPT !.faults = @ - 1]
  /\ IF RetryAllowed(ext[e].retryCount)
       THEN Commit([PS EXCEPT !.ext[e].retryCount = @ + 1,
                              !.ext[e].backoffs = Append(@, BackoffDelay(ext[e].retryCount + 1)),
                              !.ext[e].st = "backoff"])
       ELSE Commit(Settle(RespondUnlessSent(PS, e, ExtractionFailure(kind)),
                          e, "rejected", kind))
  /\ UNCHANGED <<chunkStore, magnetLinks>>
  /\ UNCHANGED outsideTracker

\* setTimeout(attemptExtraction, 1000 * retryCount)
BackoffFire(e) ==
  /\ Idle
  /\ ext[e].st = "backoff"
  /\ Commit(attemptExtraction(PS, e))
  /\ UNCHANGED <<chunkStore, magnetLinks, budget>>
  /\ UNCHANGED outsideTracker

----------------------------------------------------------------------------
(* Timers and events of the handles *)

\* the promise of downloadTorrent settles once; later calls of resolve/reject do nothing
\* (SettleCallAgain is a promise that every call of resolve/reject settles anew)
SettleCallAgain(S, r, st) == [S EXCEPT !.req[r].dt = st, !.micro = Append(@, r)]
SettleCall(S, r, st) ==
  IF S.req[r].dt = "pending"
    THEN [S EXCEPT !.req[r].dt = st, !.micro = Append(@, r)]
    ELSE S

\* the dynamic import of initWebTorrent completes
InitWebTorrent(r) ==
  /\ Idle
  /\ req[r].pc = "init"
  /\ IF WebTorrent = "missing"
       THEN \* initWebTorrent returns null
            /\ IF req[r].route = "download_chunk"
                 THEN Commit([Respond(PS, r, NotAvailable(500, "false", "init failed"))
                                EXCEPT !.req[r].pc = "done"])
                 ELSE \* downloadTorrent throws
                      Commit([PS EXCEPT !.req[r].pc = "acquire", !.req[r].dt = "rejected",
                                        !.micro = Append(@, r)])
       ELSE /\ IF req[r].route = "download_chunk"
                 THEN Commit(StartTorrentForChunk([PS EXCEPT !.wt = "loaded"], r, req[r].movie))
                 ELSE Commit(AddTorrent([PS EXCEPT !.wt = "loaded"], r, req[r].movie))
  /\ UNCHANGED <<chunkStore, magnetLinks, budget>>
  /\ UNCHANGED outsideTracker

\* readyHandler of /download_chunk
readyHandler(S, r, h) ==
  IF S.req[r].pc = "waitReady" /\ ~headersSent(S, r)
    THEN extractChunkWithConcurrencyControl(S, r, h)
    ELSE S

\* errorHandler of /download_chunk; the listeners are removed when the response finishes
errorHandler(S, r) ==
  IF S.req[r].pc = "done"
    THEN S
    ELSE LET S1 == RespondUnlessSent(S, r, NotAvailable(500, "true", "torrent failed"))
         IN IF S.req[r].pc = "waitReady" THEN [S1 EXCEPT !.req[r].pc = "done"] ELSE S1

RECURSIVE ReadyHandlers(_, _, _)
ReadyHandlers(S, ls, h) ==
  IF ls = <<>> THEN S ELSE ReadyHandlers(readyHandler(S, Head(ls), h), Tail(ls), h)

RECURSIVE ErrorHandlers(_, _)
ErrorHandlers(S, ls) ==
  IF ls = <<>> THEN S ELSE ErrorHandlers(errorHandler(S, Head(ls)), Tail(ls))

\* torrent.on('ready') of downloadTorrent
OnReady(S, h) ==
  IF S.tor[h].kind = "downloadTorrent" THEN SettleCall(S, S.tor[h].by, "resolved") ELSE S

\* torrent.on('error') of downloadTorrent
OnError(S, h) ==
  IF S.tor[h].kind = "downloadTorrent"
    THEN SettleCall([S EXCEPT !.at = MapDelete(@, S.tor[h].movie)], S.tor[h].by, "rejected")
    ELSE S

\* torrent 'ready': the listeners run in the order they were added
TorrentReady(h) ==
  /\ Idle
  /\ h \in 1..Len(torrents)
  /\ ~torrents[h].ready /\ ~torrents[h].failed
  /\ Commit(ReadyHandlers(OnReady([PS EXCEPT !.tor[h].ready = TRUE], h),
                          torrents[h].listeners, h))
  /\ UNCHANGED <<chunkStore, magnetLinks, budget>>
  /\ UNCHANGED outsideTracker

\* torrent 'error'
TorrentError(h) ==
  /\ Idle
  /\ h \in 1..Len(torrents)
  /\ ~torrents[h].failed
  /\ Commit(ErrorHandlers(OnError([PS EXCEPT !.tor[h].failed = TRUE], h),
                          torrents[h].listeners))
  /\ UNCHANGED <<chunkStore, magnetLinks, budget>>
  /\ UNCHANGED outsideTracker

\* the 30 s / 45 s timer of /download_chunk while it waits for the torrent
ChunkTimeout(r) ==
  /\ Idle
  /\ req[r].pc = "waitReady"
  /\ Commit([RespondUnlessSent(PS, r, NotAvailable(504, "true", "torrent timeout"))
               EXCEPT !.req[r].pc = "done"])
  /\ UNCHANGED <<chunkStore, magnetLinks, budget>>
  /\ UNCHANGED outsideTracker

\* the 60 s readiness timer of downloadTorrent, when it finds the torrent not ready
ReadyTimeout(h) ==
  /\ Idle
  /\ h \in 1..Len(torrents)
  /\ torrents[h].kind = "downloadTorrent"
  /\ ~torrents[h].ready
  /\ req[torrents[h].by].dt = "pending"
  /\ Commit(SettleCall(PS, torrents[h].by, "resolved"))
  /\ UNCHANGED <<chunkStore, magnetLinks, budget>>
  /\ UNCHANGED outsideTracker

----------------------------------------------------------------------------
(* The chunk registry (chunkRegistry) and the peer table (peerConnections) *)

MaxRegChunk == 1     \* chunk indices registered are 0..MaxRegChunk
MaxBatch == 2        \* longest chunks array of a batch registration
MaxTicks == 6        \* minutes that pass in one behaviour
MaxRegReq == 2       \* requests to the registry of parallelTracker.js in one behaviour
MaxCleanReq == 4     \* requests to the registry of tracker.js in one behaviour

staleThreshold == 5 * 60 * 1000
SweepPeriodMs == 60000

Peers == {"p1", "p2"}
RegChunks == 0..MaxRegChunk
RECURSIVE SeqsUpTo(_, _)
SeqsUpTo(S, n) ==
  IF n = 0 THEN {<<>>}
  ELSE LET shorter == SeqsUpTo(S, n - 1)
       IN shorter \cup {Append(q, x) : q \in shorter, x \in S}
BatchInputs == SeqsUpTo(RegChunks, MaxBatch)

(* Array.prototype: indexOf (0-based, -1 when absent), splice(i, 1), includes *)
indexOf(list, p) ==
  IF \E i \in 1..Len(list) : list[i] = p
    THEN (CHOOSE i \in 1..Len(list) : list[i] = p /\ \A j \in 1..(i - 1) : list[j] # p) - 1
    ELSE -1
splice(list, i) == SubSeq(list, 1, i) \o SubSeq(list, i + 2, Len(list))
includes(list, p) == \E i \in 1..Len(list) : list[i] = p

\* if (!chunkRegistry[movie]) ...; if (!chunkRegistry[movie][chunkIndex]) ...
EnsureEntry(reg, m, c) ==
  LET r1 == IF MapHas(reg, m) THEN reg ELSE MapSet(reg, m, EmptyMap)
  IN IF MapHas(r1[m], c) THEN r1 ELSE [r1 EXCEPT ![m] = MapSet(@, c, <<>>)]

\* if (!list.includes(peerId)) list.push(peerId)
\* (AddClaimAlways pushes without the test)
AddClaimAlways(reg, m, c, p) == [EnsureEntry(reg, m, c) EXCEPT ![m][c] = Append(@, p)]
AddClaim(reg, m, c, p) ==
  LET r1 == EnsureEntry(reg, m, c)
  IN IF includes(r1[m][c], p) THEN r1 ELSE [r1 EXCEPT ![m][c] = Append(@, p)]

IsNewClaim(reg, m, c, p) == ~includes(EnsureEntry(reg, m, c)[m][c], p)

\* lastSeen is assigned in the same call that creates the record
NewPeer(p, t) ==
  [id |-> p, connectedAt |-> t, availableChunks |-> {}, movies |-> {}, lastSeen |-> t]

updatePeerChunkInfo(pc, p, m, c, t) ==
  LET pc1 == IF MapHas(pc, p) THEN pc ELSE MapSet(pc, p, NewPeer(p, t))
  IN [pc1 EXCEPT ![p].availableChunks = @ \cup {c},
                 ![p].movies = @ \cup {m},
                 ![p].lastSeen = t]

\* what a handler of the registry writes: its answer, and with console.log the
\* lines "Registered chunk ..." / "Removed peer ..." (logged counts them)
RegAnswer(op, status, p, registered, total, logged) ==
  [op |-> op, status |-> status, peer |-> p, registered |-> registered, total |-> total,
   logged |-> logged]
NoRegAnswer == RegAnswer("none", 0, "p1", 0, 0, 0)

RegRequest ==
  /\ regBudget > 0
  /\ regBudget' = regBudget - 1

\* POST /register_chunk of parallelTracker.js
RegisterChunk(m, c, p) ==
  /\ RegRequest
  /\ chunkRegistry' = AddClaim(chunkRegistry, m, c, p)
  /\ peerConnections' = IF IsNewClaim(chunkRegistry, m, c, p)
                          THEN updatePeerChunkInfo(peerConnections, p, m, c, now)
                          ELSE peerConnections
  /\ regResp' = RegAnswer("register_chunk", 200, p, 0, 0,
                          IF IsNewClaim(chunkRegistry, m, c, p) THEN 1 ELSE 0)
  /\ UNCHANGED now
  /\ UNCHANGED outsideRegistry

\* POST /register_chunk of tracker.js
TrackerRegisterChunk(m, c, p) ==
  /\ RegRequest
  /\ chunkRegistry' = AddClaim(chunkRegistry, m, c, p)
  /\ regResp' = RegAnswer("register_chunk", 200, p, 0, 0,
                          IF IsNewClaim(chunkRegistry, m, c, p) THEN 1 ELSE 0)
  /\ UNCHANGED <<peerConnections, now>>
  /\ UNCHANGED outsideRegistry

\* chunks.forEach(...) of /register_chunks_batch
RECURSIVE BatchRegistry(_, _, _, _)
BatchRegistry(reg, m, chunks, p) ==
  IF chunks = <<>> THEN reg
  ELSE BatchRegistry(AddClaim(reg, m, Head(chunks), p), m, Tail(chunks), p)

RECURSIVE BatchRegistered(_, _, _, _)
BatchRegistered(reg, m, chunks, p) ==
  IF chunks = <<>> THEN 0
  ELSE (IF IsNewClaim(reg, m, Head(chunks), p) THEN 1 ELSE 0)
       + BatchRegistered(AddClaim(reg, m, Head(chunks), p), m, Tail(chunks), p)

\* POST /register_chunks_batch; isArray is Array.isArray(chunks)
RegisterChunksBatch(m, isArray, chunks, p) ==
  /\ RegRequest
  /\ IF ~isArray
       THEN /\ regResp' = RegAnswer("register_chunks_batch", 400, p, 0, 0, 0)
            /\ UNCHANGED chunkRegistry
       ELSE /\ chunkRegistry' = BatchRegistry(chunkRegistry, m, chunks, p)
            /\ regResp' = RegAnswer("register_chunks_batch", 200, p,
                                    BatchRegistered(chunkRegistry, m, chunks, p), Len(chunks), 0)
  /\ UNCHANGED <<peerConnections, now>>
  /\ UNCHANGED outsideRegistry

\* indexOf and splice(peerIndex, 1)
RemovePeer(list, p) ==
  IF indexOf(list, p) > -1 THEN splice(list, indexOf(list, p)) ELSE list

RECURSIVE RemovePeers(_, _)
RemovePeers(list, ps) ==
  IF ps = {} THEN list
  ELSE LET p == CHOOSE x \in ps : TRUE
       IN RemovePeers(RemovePeer(list, p), ps \ {p})

\* now - peerInfo.lastSeen > staleThreshold (IsStaleAtThreshold takes a peer
\* for stale already at the threshold)
IsStaleAtThreshold(t, lastSeen) == t - lastSeen >= staleThreshold
IsStale(t, lastSeen) == t - lastSeen > staleThreshold

StalePeers == {p \in DOMAIN peerConnections : IsStale(now, peerConnections[p].lastSeen)}

\* setInterval(..., 60000) of parallelTracker.js: "Cleanup old peer connections"
StalePeerCleanup ==
  /\ peerConnections' = [p \in (DOMAIN peerConnections) \ StalePeers |-> peerConnections[p]]
  /\ chunkRegistry' = [m \in DOMAIN chunkRegistry |->
                         [c \in DOMAIN chunkRegistry[m] |->
                            RemovePeers(chunkRegistry[m][c], StalePeers)]]
  /\ UNCHANGED <<now, regResp, regBudget>>
  /\ UNCHANGED outsideRegistry

\* "Clean up empty chunk entries" (KeepChunks keeps them)
KeepChunks(entries) == entries
PruneChunks(entries) == [c \in {x \in DOMAIN entries : Len(entries[x]) # 0} |-> entries[c]]
\* "Clean up empty movie entries"
PruneMovies(reg) == [m \in {x \in DOMAIN reg : DOMAIN reg[x] # {}} |-> reg[m]]

ClaimsOf(reg, p) ==
  {mc \in UNION {{<<m, c>> : c \in DOMAIN reg[m]} : m \in DOMAIN reg} :
     includes(reg[mc[1]][mc[2]], p)}

\* POST /cleanup_peer of tracker.js
CleanupPeer(p) ==
  /\ RegRequest
  /\ chunkRegistry' =
       PruneMovies([m \in DOMAIN chunkRegistry |->
                      PruneChunks([c \in DOMAIN chunkRegistry[m] |->
                                     RemovePeer(chunkRegistry[m][c], p)])])
  /\ regResp' = RegAnswer("cleanup_peer", 200, p, 0, 0,
                          Cardinality(ClaimsOf(chunkRegistry, p)))
  /\ UNCHANGED <<peerConnections, now>>
  /\ UNCHANGED outsideRegistry

\* a minute passes
Tick ==
  /\ now < MaxTicks * SweepPeriodMs
  /\ now' = now + SweepPeriodMs
  /\ UNCHANGED <<chunkRegistry, peerConnections, regResp, regBudget>>
  /\ UNCHANGED outsideRegistry

----------------------------------------------------------------------------
(* ParallelStreamingEngine: the pool of worker threads and its queue *)

maxWorkers == 2      \* options.maxWorkers of the engine
MaxSchedChunk == 3   \* a stream has the chunks 0..MaxSchedChunk
MaxSubmit == 4       \* calls of downloadChunkParallel in one behaviour
MaxLiveSubmit == 3   \* chunks of the stream where progress is checked
MaxHang == 2         \* worker threads that stop answering in one behaviour
MaxErrors == 1       \* tasks a worker thread answers with an 'error' message
MaxCrash == 1        \* worker threads that crash in one behaviour
MaxCrashSubmit == 2  \* calls of downloadChunkParallel where a thread crashes
MaxRecs == 5         \* worker records created in one behaviour
MaxTotalChunks == 6  \* totalChunks of a stream is 0..MaxTotalChunks
MaxFairChunks == 2   \* totalChunks of a stream where progress is checked
MaxRestartChunks == 2  \* totalChunks of a stream on an engine that is used again

TaskTimeoutMs == 30000
RespawnDelayMs == 1000

Slots == 0..(maxWorkers - 1)
SchedChunks == 0..MaxSchedChunk
TaskIds == 1..Max({MaxSubmit, MaxLiveSubmit, MaxCrashSubmit, MaxTotalChunks})
NoTask == 0
NoData == <<>>
\* an empty slot of an array that was extended by a write past its end
Hole == <<"empty">>
\* the bytes downloadAndProcessChunk makes for chunk c of movie m: the chunk index
\* written over the whole buffer, whatever the movie
ChunkData(m, c) == <<"bytes", c>>

\* the state of the engine as a record
SS == [workers |-> workers, recs |-> recs, workerQueue |-> workerQueue, tasks |-> tasks,
       inbox |-> inbox, timers |-> timers, respawns |-> respawns,
       streamBuffer |-> streamBuffer, streams |-> streams]

CommitS(S) ==
  /\ workers' = S.workers
  /\ recs' = S.recs
  /\ workerQueue' = S.workerQueue
  /\ tasks' = S.tasks
  /\ inbox' = S.inbox
  /\ timers' = S.timers
  /\ respawns' = S.respawns
  /\ streamBuffer' = S.streamBuffer
  /\ streams' = S.streams

NoTaskRec == [movieId |-> MovieA, chunkIndex |-> 0, promise |-> "none", assigned |-> FALSE,
              value |-> NoData, reason |-> "none", stream |-> 0]

\* resolve and reject of a task's promise: only the first call settles it
resolve(S, t, data) ==
  IF S.tasks[t].promise = "pending"
    THEN [S EXCEPT !.tasks[t].promise = "resolved", !.tasks[t].value = data]
    ELSE S
reject(S, t, why) ==
  IF S.tasks[t].promise = "pending"
    THEN [S EXCEPT !.tasks[t].promise = "rejected", !.tasks[t].reason = why]
    ELSE S

\* createWorker: a new thread and a new record in the slot
createWorker(S, slot) ==
  LET k == Len(S.recs) + 1
  IN [S EXCEPT !.recs = Append(@, [slot |-> slot, busy |-> FALSE, currentTask |-> NoTask,
                                   thread |-> "running", exitPending |-> FALSE]),
               !.inbox = Append(@, <<>>),
               !.workers[slot] = k]

\* worker.terminate(): the thread stops and its 'exit' event follows with code 1
terminate(S, k) ==
  IF S.recs[k].thread \in {"running", "hung"}
    THEN [S EXCEPT !.recs[k].thread = "dead", !.recs[k].exitPending = TRUE,
                   !.inbox[k] = <<>>]
    ELSE S

\* restartWorker: terminate the worker of the slot, createWorker after 1 s
restartWorker(S, slot) ==
  LET S1 == terminate(S, S.workers[slot])
  IN [S1 EXCEPT !.respawns[slot] = @ + 1]

\* this.workers.find(w => w && !w.busy): the record of the first slot that is not busy
IdleSlots(S) == {i \in Slots : ~S.recs[S.workers[i]].busy}
getAvailableWorker(S) ==
  IF IdleSlots(S) = {} THEN 0
  ELSE S.workers[CHOOSE i \in IdleSlots(S) : \A j \in IdleSlots(S) : i <= j]

\* assignChunkToWorker: mark busy, post the task to the thread, arm the 30 s timer
assignChunkToWorker(S, k, t) ==
  LET task == [movieId |-> S.tasks[t].movieId, chunkIndex |-> S.tasks[t].chunkIndex,
               stage |-> "progress", stream |-> S.tasks[t].stream]
      S1 == [S EXCEPT !.recs[k].busy = TRUE, !.recs[k].currentTask = t,
                      !.tasks[t].assigned = TRUE,
                      !.timers = @ \cup {[rec |-> k, chunkIndex |-> S.tasks[t].chunkIndex,
                                          task |-> t]}]
  IN IF S1.recs[k].thread = "dead"
       THEN S1
       ELSE [S1 EXCEPT !.inbox[k] = Append(@, task)]

processWorkerQueue(S) ==
  IF S.workerQueue = <<>> THEN S
  ELSE IF getAvailableWorker(S) = 0 THEN S
  ELSE assignChunkToWorker([S EXCEPT !.workerQueue = Tail(@)], getAvailableWorker(S),
                           Head(S.workerQueue))

\* buffer[c] = data on a JavaScript array: a write past the end extends the array
ArrayWrite(buffer, c, data) ==
  [i \in (DOMAIN buffer) \cup 0..c |->
     IF i = c THEN data ELSE IF i \in DOMAIN buffer THEN buffer[i] ELSE Hole]

storeChunkData(S, m, c, data) ==
  IF MapHas(S.streamBuffer, m)
    THEN [S EXCEPT !.streamBuffer[m] = ArrayWrite(@, c, data)]
    ELSE S

\* handleWorkerMessage(workerId, message)
handleWorkerMessageByTask(S, slot, msg) ==
  LET k == S.workers[slot]
      t == S.recs[k].currentTask
  IN IF t = NoTask THEN S
     ELSE LET S1 == CASE msg.type = "chunkDownloaded" ->
                          resolve(storeChunkData(S, S.tasks[t].movieId, S.tasks[t].chunkIndex,
                                                 ChunkData(msg.movieId, msg.chunkIndex)),
                                  t, ChunkData(msg.movieId, msg.chunkIndex))
                      [] msg.type = "progress" -> S
                      [] msg.type = "error" -> reject(S, t, "error")
              S2 == [S1 EXCEPT !.recs[k].busy = FALSE, !.recs[k].currentTask = NoTask]
          IN processWorkerQueue(S2)
handleWorkerMessage(S, slot, msg) ==
  LET k == S.workers[slot]
      t == S.recs[k].currentTask
  IN IF t = NoTask THEN S
     ELSE LET S1 == CASE msg.type = "chunkDownloaded" ->
                          resolve(storeChunkData(S, msg.movieId, msg.chunkIndex,
                                                 ChunkData(msg.movieId, msg.chunkIndex)),
                                  t, ChunkData(msg.movieId, msg.chunkIndex))
                      [] msg.type = "progress" -> S
                      [] msg.type = "error" -> reject(S, t, "error")
              S2 == [S1 EXCEPT !.recs[k].busy = FALSE, !.recs[k].currentTask = NoTask]
          IN processWorkerQueue(S2)

handleWorkerTimeout(S, k) ==
  IF S.recs[k].currentTask # NoTask
    THEN [reject(S, S.recs[k].currentTask, "Worker timeout")
            EXCEPT !.recs[k].busy = FALSE, !.recs[k].currentTask = NoTask]
    ELSE S

SubmittedTasks == {t \in TaskIds : tasks[t].promise # "none"}
NextTask == Cardinality(SubmittedTasks) + 1

\* the chunk of the n-th submission: executeParallelDownloadsAsync submits the priority
\* chunks in ascending order, 100 ms apart; a stream started again begins at chunk 0
StreamChunk(n) == (n - 1) % (MaxSchedChunk + 1)

\* downloadChunkParallel(movieId, chunkIndex); t is the new task, s the stream that
\* issues it (0: none)
downloadChunkParallel(S, t, m, c, s) ==
  LET S0 == [S EXCEPT !.tasks[t] = [NoTaskRec EXCEPT !.movieId = m, !.chunkIndex = c,
                                                     !.promise = "pending", !.stream = s]]
  IN IF getAvailableWorker(S0) = 0
       THEN [S0 EXCEPT !.workerQueue = Append(@, t)]
       ELSE assignChunkToWorker(S0, getAvailableWorker(S0), t)

\* a call of downloadChunkParallel(movieId, chunkIndex)
Submit(m, c) ==
  /\ schedBudget.submits > 0
  /\ NextTask \in TaskIds
  /\ schedBudget' = [schedBudget EXCEPT !.submits = @ - 1]
  /\ CommitS(downloadChunkParallel(SS, NextTask, m, c, 0))
  /\ UNCHANGED outsideScheduler

PriorityCount == 5

\* the numbers a..b in increasing order
Range(a, b) == [i \in 1..(IF b >= a THEN b - a + 1 ELSE 0) |-> a + i - 1]

\* createDownloadStrategy(movieId, totalChunks, [])
createDownloadStrategyOneMore(totalChunks) ==
  [priorityChunks |-> Range(0, Min({PriorityCount, totalChunks})),
   backgroundChunks |-> Range(PriorityCount, totalChunks - 1)]
createDownloadStrategy(totalChunks) ==
  [priorityChunks |-> Range(0, Min({PriorityCount, totalChunks}) - 1),
   backgroundChunks |-> Range(PriorityCount, totalChunks - 1)]

\* startParallelStream(movieId, totalChunks): a new buffer, the strategy, the timers of
\* executeParallelDownloadsAsync (priority chunk i after i * 100 ms, background chunk i
\* after 2000 + i * 200 ms), and the answer
StartParallelStream(m, totalChunks) ==
  /\ schedBudget.streams > 0
  /\ schedBudget' = [schedBudget EXCEPT !.streams = @ - 1]
  /\ LET strategy == createDownloadStrategy(totalChunks)
     IN CommitS([SS EXCEPT
          !.streamBuffer = MapSet(@, m, [i \in 0..(totalChunks - 1) |-> NoData]),
          !.streams = Append(@, [movieId |-> m,
                                 priorityChunks |-> strategy.priorityChunks,
                                 backgroundChunks |-> strategy.backgroundChunks,
                                 issued |-> 0,
                                 ready |-> FALSE,
                                 stats |-> [totalChunks |-> totalChunks,
                                            workersActive |-> maxWorkers,
                                            priorityChunks |-> Len(strategy.priorityChunks),
                                            backgroundChunks |-> Len(strategy.backgroundChunks)]])])
  /\ UNCHANGED outsideScheduler

\* the timers of a stream in the order of their delays: priority chunk i after
\* i * 100 ms, background chunk i after 2000 + i * 200 ms
IssueOrderBackgroundFirst(st) == st.backgroundChunks \o st.priorityChunks
IssueOrder(st) == st.priorityChunks \o st.backgroundChunks

\* the next timer of stream s fires
IssueChunk(s) ==
  /\ s \in 1..Len(streams)
  /\ streams[s].issued < Len(IssueOrder(streams[s]))
  /\ NextTask \in TaskIds
  /\ CommitS(downloadChunkParallel([SS EXCEPT !.streams[s].issued = @ + 1], NextTask,
                                   streams[s].movieId,
                                   IssueOrder(streams[s])[streams[s].issued + 1], s))
  /\ UNCHANGED <<schedBudget>>
  /\ UNCHANGED outsideScheduler

\* the jobs of stream s that a thread has not finished
Unfinished(S, s) ==
  {<<k, i>> \in (1..Len(S.inbox)) \X TaskIds :
     /\ i <= Len(S.inbox[k])
     /\ S.inbox[k][i].stream = s}

\* the 3000 ms timer of executeParallelDownloadsAsync fires: emit streamReady. By then
\* the timers of the priority chunks (at most 400 ms) have fired and the threads have
\* finished these chunks (at most 1500 ms each, side by side)
StreamReady(s) ==
  /\ s \in 1..Len(streams)
  /\ ~streams[s].ready
  /\ streams[s].issued >= Len(streams[s].priorityChunks)
  /\ Unfinished(SS, s) = {}
  /\ CommitS([SS EXCEPT !.streams[s].ready = TRUE])
  /\ UNCHANGED <<schedBudget>>
  /\ UNCHANGED outsideScheduler

\* (availableChunks / totalChunks * 100).toFixed(1), in tenths of a percent
toFixed1(available, total) ==
  LET twice == (2 * available * 1000) \div total
  IN (twice + 1) \div 2

\* getStreamingStats(movieId)
getStreamingStatsAllSlots(S, m) ==
  LET buffer == IF MapHas(S.streamBuffer, m) THEN S.streamBuffer[m] ELSE <<>>
      totalChunks == Cardinality(DOMAIN buffer)
      availableChunks == Cardinality({i \in DOMAIN buffer : buffer[i] # Hole})
  IN [movieId |-> m,
      totalChunks |-> totalChunks,
      availableChunks |-> availableChunks,
      completedPercentage |-> IF totalChunks > 0 THEN toFixed1(availableChunks, totalChunks)
                              ELSE 0,
      workersActive |-> Cardinality({i \in Slots : S.recs[S.workers[i]].busy}),
      totalWorkers |-> maxWorkers,
      queueLength |-> Len(S.workerQueue)]
getStreamingStats(S, m) ==
  LET buffer == IF MapHas(S.streamBuffer, m) THEN S.streamBuffer[m] ELSE <<>>
      totalChunks == Cardinality(DOMAIN buffer)
      availableChunks == Cardinality({i \in DOMAIN buffer : buffer[i] \notin {NoData, Hole}})
  IN [movieId |-> m,
      totalChunks |-> totalChunks,
      availableChunks |-> availableChunks,
      completedPercentage |-> IF totalChunks > 0 THEN toFixed1(availableChunks, totalChunks)
                              ELSE 0,
      workersActive |-> Cardinality({i \in Slots : S.recs[S.workers[i]].busy}),
      totalWorkers |-> maxWorkers,
      queueLength |-> Len(S.workerQueue)]

\* the thread of record k posts the next message of the i-th task it is working on:
\* first 'progress', then 'chunkDownloaded' (or 'error' when the work throws)
WorkerMessage(k, i, fails) ==
  /\ k \in 1..Len(recs)
  /\ recs[k].thread = "running"
  /\ i \in 1..Len(inbox[k])
  /\ \A j \in 1..(i - 1) : inbox[k][j].stage # "progress"
  /\ fails => (schedBudget.errors > 0 /\ inbox[k][i].stage = "work")
  /\ schedBudget' = [schedBudget EXCEPT !.errors = IF fails THEN @ - 1 ELSE @]
  /\ LET job == inbox[k][i]
         msg == [type |-> IF job.stage = "progress" THEN "progress"
                          ELSE IF fails THEN "error" ELSE "chunkDownloaded",
                 movieId |-> job.movieId, chunkIndex |-> job.chunkIndex]
         rest == IF job.stage = "progress"
                   THEN [inbox[k] EXCEPT ![i].stage = "work"]
                   ELSE SubSeq(inbox[k], 1, i - 1) \o SubSeq(inbox[k], i + 1, Len(inbox[k]))
     IN CommitS(handleWorkerMessage([SS EXCEPT !.inbox[k] = rest], recs[k].slot, msg))
  /\ UNCHANGED outsideScheduler

\* the 30 s timer of assignChunkToWorker fires
TaskTimeout(tm) ==
  /\ tm \in timers
  /\ LET S0 == [SS EXCEPT !.timers = @ \ {tm}]
         cur == recs[tm.rec].currentTask
     IN IF cur # NoTask /\ tasks[cur].chunkIndex = tm.chunkIndex
          THEN CommitS(handleWorkerTimeout(S0, tm.rec))
          ELSE CommitS(S0)
  /\ UNCHANGED <<schedBudget>>
  /\ UNCHANGED outsideScheduler

\* the thread of record k stops answering
Hang(k) ==
  /\ k \in 1..Len(recs)
  /\ recs[k].thread = "running"
  /\ schedBudget.hangs > 0
  /\ schedBudget' = [schedBudget EXCEPT !.hangs = @ - 1]
  /\ CommitS([SS EXCEPT !.recs[k].thread = "hung"])
  /\ UNCHANGED outsideScheduler

\* an uncaught exception in the thread of record k: its 'error' event
WorkerError(k) ==
  /\ k \in 1..Len(recs)
  /\ recs[k].thread \in {"running", "hung"}
  /\ schedBudget.crashes > 0
  /\ schedBudget' = [schedBudget EXCEPT !.crashes = @ - 1]
  /\ CommitS(restartWorker([SS EXCEPT !.recs[k].thread = "dead",
                                      !.recs[k].exitPending = TRUE,
                                      !.inbox[k] = <<>>], recs[k].slot))
  /\ UNCHANGED outsideScheduler

\* the 'exit' event of a thread that crashed or was terminated (code 1)
WorkerExit(k) ==
  /\ k \in 1..Len(recs)
  /\ recs[k].exitPending
  /\ CommitS(restartWorker([SS EXCEPT !.recs[k].exitPending = FALSE], recs[k].slot))
  /\ UNCHANGED <<schedBudget>>
  /\ UNCHANGED outsideScheduler

\* the 1 s timer of restartWorker fires
Respawn(slot) ==
  /\ respawns[slot] > 0
  /\ Len(recs) < MaxRecs
  /\ CommitS(createWorker([SS EXCEPT !.respawns[slot] = @ - 1], slot))
  /\ UNCHANGED <<schedBudget>>
  /\ UNCHANGED outsideScheduler

----------------------------------------------------------------------------
(* The pool of streaming engines and the routes start_parallel_stream, stream_movie *)

maxConcurrentStreams == 5
MaxStarts == 3       \* requests to start_parallel_stream in one behaviour
MaxPlays == 2        \* requests to stream_movie in one behaviour
MaxFairStarts == 6   \* requests to start_parallel_stream where the return of engines is checked
MaxFairPlays == 1    \* requests to stream_movie where the return of engines is checked

Engines == 1..maxConcurrentStreams
MovieU == <<"A", "_", "1">>     \* the title "A_1"
PoolMovies == {MovieB, MovieU}
PoolPeers == {"p1"}

\* `${movie}_${peerId}`
streamId(m, p) == m \o <<"_", p>>

\* streamId.split('_')[0]: the text before the first underscore
RECURSIVE FirstPart(_)
FirstPart(text) ==
  IF text = <<>> \/ Head(text) = "_" THEN <<>>
  ELSE <<Head(text)>> \o FirstPart(Tail(text))

\* availableEngines.pop() || null
getAvailableStreamingEngine(pool) ==
  IF pool = <<>> THEN 0 ELSE pool[Len(pool)]

PoolAnswer(route, id, status) == [route |-> route, id |-> id, status |-> status]
NoPoolAnswer == PoolAnswer("none", <<>>, 0)

\* POST /start_parallel_stream, up to its await of engine.startParallelStream: movie
\* info is always found; an engine is popped, or the answer is 503;
\* startParallelStream makes the buffer of the movie before it returns its promise
start_parallel_stream(m, p) ==
  /\ poolBudget.starts > 0
  /\ poolBudget' = [poolBudget EXCEPT !.starts = @ - 1]
  /\ LET engine == getAvailableStreamingEngine(availableEngines)
     IN IF engine = 0
          THEN /\ poolResp' = (PoolAnswer("start", streamId(m, p), 503))
               /\ UNCHANGED <<availableEngines, engineBuffers, starting>>
          ELSE /\ availableEngines' = SubSeq(availableEngines, 1, Len(availableEngines) - 1)
               /\ engineBuffers' = [engineBuffers EXCEPT ![engine] = @ \cup {m}]
               /\ starting' = starting \cup {[movie |-> m, peerId |-> p, engine |-> engine]}
               /\ UNCHANGED poolResp
  /\ UNCHANGED <<streamingEngines, readers>>
  /\ UNCHANGED outsidePool

\* the handler of start_parallel_stream goes on after the await: it stores the engine
\* under the stream id, whatever is stored there, and answers
StartStored(h) ==
  /\ h \in starting
  /\ starting' = starting \ {h}
  /\ streamingEngines' = MapSet(streamingEngines, streamId(h.movie, h.peerId), h.engine)
  /\ poolResp' = (PoolAnswer("start", streamId(h.movie, h.peerId), 200))
  /\ UNCHANGED <<availableEngines, engineBuffers, readers, poolBudget>>
  /\ UNCHANGED outsidePool

\* GET /stream_movie: 404 without an engine for the stream id; createStreamResponse
\* throws when the engine has no buffer for the first part of the stream id (500);
\* else a Readable is piped to the response
stream_movie(m, p) ==
  /\ poolBudget.plays > 0
  /\ poolBudget' = [poolBudget EXCEPT !.plays = @ - 1]
  /\ LET id == streamId(m, p)
     IN IF ~MapHas(streamingEngines, id)
          THEN /\ poolResp' = (PoolAnswer("stream", id, 404))
               /\ UNCHANGED readers
          ELSE IF FirstPart(id) \notin engineBuffers[streamingEngines[id]]
          THEN /\ poolResp' = (PoolAnswer("stream", id, 500))
               /\ UNCHANGED readers
          ELSE /\ poolResp' = (PoolAnswer("stream", id, 200))
               /\ readers' = Append(readers, [id |-> id, engine |-> streamingEngines[id],
                                              stage |-> "flowing"])
  /\ UNCHANGED <<availableEngines, streamingEngines, engineBuffers, starting>>
  /\ UNCHANGED outsidePool

\* the 'end' event of a Readable: the 5 s timer of the clean-up is armed
ReadableEnd(i) ==
  /\ i \in 1..Len(readers)
  /\ readers[i].stage = "flowing"
  /\ readers' = [readers EXCEPT ![i].stage = "ended"]
  /\ UNCHANGED <<availableEngines, streamingEngines, engineBuffers, starting, poolResp,
                 poolBudget>>
  /\ UNCHANGED outsidePool

\* the 5 s timer fires: the stream id is deleted and the engine is pushed to the pool
EngineCleanup(i) ==
  /\ i \in 1..Len(readers)
  /\ readers[i].stage = "ended"
  /\ readers' = [readers EXCEPT ![i].stage = "done"]
  /\ streamingEngines' = MapDelete(streamingEngines, readers[i].id)
  /\ availableEngines' = Append(availableEngines, readers[i].engine)
  /\ UNCHANGED <<engineBuffers, starting, poolResp, poolBudget>>
  /\ UNCHANGED outsidePool

----------------------------------------------------------------------------
(* Specifications *)

\* the pool after the module is loaded: every engine once
PoolBuilt ==
  /\ availableEngines = [i \in 1..maxConcurrentStreams |-> i]
  /\ streamingEngines = EmptyMap
  /\ engineBuffers = [e \in Engines |-> {}]
  /\ starting = {}
  /\ readers = <<>>
  /\ poolResp = NoPoolAnswer

\* no request reaches the two stream routes
PoolIdle ==
  /\ PoolBuilt
  /\ poolBudget = [starts |-> 0, plays |-> 0]

\* the engine after its constructor
EngineBuilt ==
  /\ workers = [i \in Slots |-> i + 1]
  /\ recs = [k \in 1..maxWorkers |->
               [slot |-> k - 1, busy |-> FALSE, currentTask |-> NoTask,
                thread |-> "running", exitPending |-> FALSE]]
  /\ inbox = [k \in 1..maxWorkers |-> <<>>]
  /\ workerQueue = <<>>
  /\ tasks = [t \in TaskIds |-> NoTaskRec]
  /\ timers = {}
  /\ respawns = [i \in Slots |-> 0]
  /\ streams = <<>>

\* startParallelStream has created the buffer of a stream of n chunks of MovieA
Buffered(n) ==
  streamBuffer = MapSet(EmptyMap, MovieA, [i \in 0..(n - 1) |-> NoData])

\* no task is submitted to the engine
EngineIdle ==
  /\ EngineBuilt
  /\ streamBuffer = EmptyMap
  /\ schedBudget = [submits |-> 0, hangs |-> 0, errors |-> 0, crashes |-> 0, streams |-> 0]

\* no request has reached the registry
RegistryIdle ==
  /\ chunkRegistry = EmptyMap
  /\ peerConnections = EmptyMap
  /\ now = 0
  /\ regResp = NoRegAnswer
  /\ regBudget = 0

InitCommon ==
  /\ req = [r \in Req |-> NoReq]
  /\ resp = [r \in Req |-> <<>>]
  /\ ext = [r \in Req |-> NoExt]
  /\ chunkExtractionQueue = EmptyMap
  /\ activeExtractions = EmptyMap
  /\ chunkStore = {}
  /\ micro = <<>>

\* The process after start-up
Init ==
  /\ PoolIdle
  /\ InitCommon
  /\ torrents = <<>>
  /\ activeTorrents = EmptyMap
  /\ magnetLinks = EmptyMap
  /\ WebTorrent \in {"unloaded", "missing"}
  /\ budget = [req |-> MaxHandleReq, faults |-> 0, saveFails |-> MaxSaveFail]
  /\ RegistryIdle
  /\ EngineIdle

\* The tracker: magnet links are stored and chunks are asked for
Next ==
  \/ \E r \in Req, m \in Movies \cup {NoMovie}, link \in Links \cup {NoLink} :
        StoreMagnet(r, m, link)
  \/ \E r \in Req, m \in Movies, t \in ChunkTexts : DownloadChunk(r, m, t)
  \/ Microtask
  \/ \E r \in Req : InitWebTorrent(r)
  \/ \E h \in 1..Len(torrents) : TorrentReady(h)
  \/ \E h \in 1..Len(torrents) : TorrentError(h)
  \/ \E h \in 1..Len(torrents) : ReadyTimeout(h)
  \/ \E r \in Req : ChunkTimeout(r)
  \/ \E e \in Req, saved \in BOOLEAN : StreamEnd(e, saved)

Spec == Init /\ [][Next]_vars

\* The process once the torrents of both movies are ready
ReadyTorrents ==
  <<[NewTorrent(MovieA, 0, "downloadTorrent") EXCEPT !.ready = TRUE],
    [NewTorrent(MovieB, 0, "downloadTorrent") EXCEPT !.ready = TRUE]>>

PipeReady ==
  /\ InitCommon
  /\ torrents = ReadyTorrents
  /\ activeTorrents = MapSet(MapSet(EmptyMap, MovieA, 1), MovieB, 2)
  /\ magnetLinks = MapSet(MapSet(EmptyMap, MovieA, "magnet"), MovieB, "magnet")
  /\ WebTorrent = "loaded"
  /\ RegistryIdle
  /\ EngineIdle

\* A burst of requests for one movie; every read succeeds and every chunk is saved
InitBurst ==
  /\ PoolIdle
  /\ PipeReady
  /\ budget = [req |-> MaxReq, faults |-> 0, saveFails |-> 0]

NextBurst ==
  \/ \E r \in Req, c \in Chunks : DownloadChunkParallel(r, MovieA, ToText(c))
  \/ Microtask
  \/ \E r \in Req : PollWake(r)
  \/ \E e \in Req : StreamEnd(e, TRUE)

SpecBurst == InitBurst /\ [][NextBurst]_vars

\* A few requests against a source whose reads may fail
InitRetry ==
  /\ PoolIdle
  /\ PipeReady
  /\ budget = [req |-> MaxRetryReq, faults |-> MaxFaults, saveFails |-> MaxSaveFail]

NextRetry ==
  \/ \E r \in Req, m \in Movies, c \in Chunks : DownloadChunkParallel(r, m, ToText(c))
  \/ Microtask
  \/ \E e \in Req, saved \in BOOLEAN : StreamEnd(e, saved)
  \/ \E e \in Req, kind \in {"timeout", "empty", "error"} : StreamFault(e, kind)
  \/ \E e \in Req : BackoffFire(e)

SpecRetry == InitRetry /\ [][NextRetry]_vars

\* The same with one request more, so that two waiters can follow one extraction
InitDup ==
  /\ PoolIdle
  /\ PipeReady
  /\ budget = [req |-> MaxDupReq, faults |-> MaxFaults, saveFails |-> MaxSaveFail]

SpecDup == InitDup /\ [][NextRetry]_vars

\* Requests for the chunks of one movie in turn, against a source whose reads may fail;
\* the microtask queue is drained, the 500 ms poll and the backoff timers fire, and every
\* read ends, fails or runs into its 15 s timer
InitFair ==
  /\ PoolIdle
  /\ PipeReady
  /\ budget = [req |-> MaxFairReq, faults |-> MaxFaults, saveFails |-> 0]

Requests ==
  \E r \in Req : DownloadChunkParallel(r, MovieA, ToText((r - 1) % (MaxChunk + 1)))
Polls == \E r \in Req : PollWake(r)
StreamEvents ==
  \/ \E e \in Req : StreamEnd(e, TRUE)
  \/ \E e \in Req, kind \in {"timeout", "empty", "error"} : StreamFault(e, kind)
Backoffs == \E e \in Req : BackoffFire(e)

NextFair ==
  \/ Requests
  \/ Microtask
  \/ Polls
  \/ StreamEvents
  \/ Backoffs

SpecFair ==
  /\ InitFair
  /\ [][NextFair]_vars
  /\ WF_vars(Microtask) /\ WF_vars(Polls) /\ WF_vars(StreamEvents) /\ WF_vars(Backoffs)

\* No request reaches the routes of the pipeline
TrackerIdle ==
  /\ InitCommon
  /\ torrents = <<>>
  /\ activeTorrents = EmptyMap
  /\ magnetLinks = EmptyMap
  /\ WebTorrent = "unloaded"
  /\ budget = [req |-> 0, faults |-> 0, saveFails |-> 0]

RegistryEmpty ==
  /\ chunkRegistry = EmptyMap
  /\ peerConnections = EmptyMap
  /\ now = 0
  /\ regResp = NoRegAnswer

\* The registry of parallelTracker.js: registrations and the sweep of stale peers
InitParallelRegistry ==
  /\ PoolIdle
  /\ TrackerIdle
  /\ EngineIdle
  /\ RegistryEmpty
  /\ regBudget = MaxRegReq

NextParallelRegistry ==
  \/ \E m \in Movies, c \in RegChunks, p \in Peers : RegisterChunk(m, c, p)
  \/ \E m \in Movies, isArray \in BOOLEAN, chunks \in BatchInputs, p \in Peers :
        RegisterChunksBatch(m, isArray, chunks, p)
  \/ StalePeerCleanup
  \/ Tick

SpecParallelRegistry == InitParallelRegistry /\ [][NextParallelRegistry]_vars

\* The registry of tracker.js: registrations and the removal of a peer
InitTrackerRegistry ==
  /\ PoolIdle
  /\ TrackerIdle
  /\ EngineIdle
  /\ RegistryEmpty
  /\ regBudget = MaxCleanReq

NextTrackerRegistry ==
  \/ \E m \in Movies, c \in RegChunks, p \in Peers : TrackerRegisterChunk(m, c, p)
  \/ \E p \in Peers : CleanupPeer(p)

SpecTrackerRegistry == InitTrackerRegistry /\ [][NextTrackerRegistry]_vars

Messages == \E k \in 1..MaxRecs, i \in TaskIds : WorkerMessage(k, i, FALSE)
Failures == \E k \in 1..MaxRecs, i \in TaskIds : WorkerMessage(k, i, TRUE)
Timeouts == \E tm \in timers : TaskTimeout(tm)

\* The engine with tasks submitted to it and threads that may be slow
InitSched ==
  /\ PoolIdle
  /\ TrackerIdle
  /\ RegistryIdle
  /\ EngineBuilt
  /\ Buffered(MaxSchedChunk + 1)
  /\ schedBudget = [submits |-> MaxSubmit, hangs |-> 0, errors |-> 0, crashes |-> 0, streams |-> 0]

NextSched ==
  \/ Submit(MovieA, StreamChunk(NextTask))
  \/ Messages
  \/ Timeouts

SpecSched == InitSched /\ [][NextSched]_vars

\* The engine with threads that may stop answering, and a stream of MaxLiveSubmit
\* chunks: executeParallelDownloadsAsync submits each chunk once and nothing after the
\* last. Timers fire and the threads that run post their messages.
InitLive ==
  /\ PoolIdle
  /\ TrackerIdle
  /\ RegistryIdle
  /\ EngineBuilt
  /\ Buffered(MaxLiveSubmit)
  /\ schedBudget = [submits |-> MaxLiveSubmit, hangs |-> MaxHang, errors |-> 0, crashes |-> 0, streams |-> 0]

NextLive ==
  \/ Submit(MovieA, StreamChunk(NextTask))
  \/ Messages
  \/ Timeouts
  \/ \E k \in 1..MaxRecs : Hang(k)

SpecLive == InitLive /\ [][NextLive]_vars /\ WF_vars(Messages) /\ WF_vars(Timeouts)

\* The engine with a thread that may crash
InitCrash ==
  /\ PoolIdle
  /\ TrackerIdle
  /\ RegistryIdle
  /\ EngineBuilt
  /\ Buffered(MaxCrashSubmit)
  /\ schedBudget = [submits |-> MaxCrashSubmit, hangs |-> 0, errors |-> MaxErrors,
                    crashes |-> MaxCrash, streams |-> 0]

NextCrash ==
  \/ Submit(MovieA, StreamChunk(NextTask))
  \/ Messages
  \/ Failures
  \/ Timeouts
  \/ \E k \in 1..MaxRecs : WorkerError(k)
  \/ \E k \in 1..MaxRecs : WorkerExit(k)
  \/ \E slot \in Slots : Respawn(slot)

SpecCrash == InitCrash /\ [][NextCrash]_vars

\* The stream of one item, in the time its chunks are issued: the last chunk of a
\* stream is issued long before the first 30 s timer can fire
InitIssue ==
  /\ PoolIdle
  /\ TrackerIdle
  /\ RegistryIdle
  /\ EngineBuilt
  /\ streamBuffer = EmptyMap
  /\ schedBudget = [submits |-> 0, hangs |-> 0, errors |-> 0, crashes |-> 0,
                    streams |-> 1]

Starts == \E totalChunks \in 0..MaxTotalChunks : StartParallelStream(MovieA, totalChunks)
Issues == \E s \in 1..Len(streams) : IssueChunk(s)

NextIssue ==
  \/ Starts
  \/ Issues
  \/ Messages

SpecIssue == InitIssue /\ [][NextIssue]_vars

\* A stream on an engine whose threads neither fail nor stop answering; every timer
\* fires and every thread posts its messages
InitStream ==
  /\ PoolIdle
  /\ TrackerIdle
  /\ RegistryIdle
  /\ EngineBuilt
  /\ streamBuffer = EmptyMap
  /\ schedBudget = [submits |-> 0, hangs |-> 0, errors |-> 0, crashes |-> 0,
                    streams |-> 1]

FairStarts == \E totalChunks \in 1..MaxFairChunks : StartParallelStream(MovieA, totalChunks)

NextStream ==
  \/ FairStarts
  \/ Issues
  \/ Messages
  \/ Timeouts

SpecStream ==
  /\ InitStream
  /\ [][NextStream]_vars
  /\ WF_vars(FairStarts) /\ WF_vars(Issues) /\ WF_vars(Messages) /\ WF_vars(Timeouts)

\* An engine that is used for a second stream of the same item: startParallelStream is
\* called twice, the 30 s timers of the first stream may fire while the second one
\* runs, and each stream announces streamReady
InitRestart ==
  /\ PoolIdle
  /\ TrackerIdle
  /\ RegistryIdle
  /\ EngineBuilt
  /\ streamBuffer = EmptyMap
  /\ schedBudget = [submits |-> 0, hangs |-> 0, errors |-> 0, crashes |-> 0,
                    streams |-> 2]

Restarts ==
  \E totalChunks \in 1..MaxRestartChunks : StartParallelStream(MovieA, totalChunks)
Readies == \E s \in 1..Len(streams) : StreamReady(s)

NextRestart ==
  \/ Restarts
  \/ Issues
  \/ Messages
  \/ Timeouts
  \/ Readies

SpecRestart == InitRestart /\ [][NextRestart]_vars

\* The pool of engines: streams are started and played, the Readable streams end and
\* their clean-up timers fire
InitPool ==
  /\ TrackerIdle
  /\ RegistryIdle
  /\ EngineIdle
  /\ PoolBuilt
  /\ poolBudget = [starts |-> MaxStarts, plays |-> MaxPlays]

StartRequests == \E m \in PoolMovies, p \in PoolPeers : start_parallel_stream(m, p)
StartsStored == \E h \in starting : StartStored(h)
PlayRequests == \E m \in PoolMovies, p \in PoolPeers : stream_movie(m, p)
ReadableEnds == \E i \in 1..Len(readers) : ReadableEnd(i)
EngineCleanups == \E i \in 1..Len(readers) : EngineCleanup(i)

NextPool ==
  \/ StartRequests
  \/ StartsStored
  \/ PlayRequests
  \/ ReadableEnds
  \/ EngineCleanups

SpecPool == InitPool /\ [][NextPool]_vars

\* The pool with more starts than engines, where every handler goes on after its
\* await, every Readable ends and every timer fires
InitPoolFair ==
  /\ TrackerIdle
  /\ RegistryIdle
  /\ EngineIdle
  /\ PoolBuilt
  /\ poolBudget = [starts |-> MaxFairStarts, plays |-> MaxFairPlays]

SpecPoolFair ==
  /\ InitPoolFair
  /\ [][NextPool]_vars
  /\ WF_vars(StartsStored) /\ WF_vars(ReadableEnds) /\ WF_vars(EngineCleanups)

----------------------------------------------------------------------------
(* Properties *)

\* an extraction that has started and has not settled
InFlight(e) == ext[e].st \in {"reading", "backoff"}
KeyOf(r) == chunkKey(req[r].movie, req[r].chunk)
InFlightOf(m) == {e \in Req : InFlight(e) /\ req[e].movie = m}
TransientFaults == {"timeout", "empty", "error"}
Settled(e) == ext[e].st \in {"resolved", "rejected"}

\* C1: at any time at most one extraction is in flight for a (movie, chunk) key.
C1_OneExtractionPerKey ==
  \A e1, e2 \in Req :
    (InFlight(e1) /\ InFlight(e2) /\ KeyOf(e1) = KeyOf(e2)) => e1 = e2

\* C2: the extractions of one movie that are in flight never number more than
\* maxConcurrentExtractions.
C2_CapRespected ==
  \A m \in Movies : Cardinality(InFlightOf(m)) <= maxConcurrentExtractions

\* C3 (as amended): an extraction whose every read met a transient fault has made
\* maxRetries + 1 = 4 reads, separated by delays of 1 s, 2 s and 3 s, and its
\* requester got a 500 marked retry: true.
C3_FourReadsThenRetryable ==
  \A e \in Req :
    (ext[e].st = "rejected" /\ ext[e].err \in TransientFaults) =>
      /\ ext[e].reads = maxRetries + 1
      /\ ext[e].backoffs = <<1000, 2000, 3000>>
      /\ resp[e] # <<>>
      /\ resp[e][1].status = 500
      /\ resp[e][1].retry = "true"

\* C3 (as stated): the same with exactly 3 reads in total.
C3_ThreeReadsThenRetryable ==
  \A e \in Req :
    (ext[e].st = "rejected" /\ ext[e].err \in TransientFaults) =>
      /\ ext[e].reads = 3
      /\ resp[e] # <<>>
      /\ resp[e][1].status = 500
      /\ resp[e][1].retry = "true"

C3_Witness ==
  \E e \in Req : ext[e].st = "rejected" /\ ext[e].err \in TransientFaults

\* C4: an extraction in flight keeps its key in chunkExtractionQueue and its chunk
\* index in activeExtractions; a finished one has left the queue; and with no
\* extraction of a movie in flight (and no continuation pending) both hold
\* nothing for the movie.
C4_RegisteredExactlyWhileInFlight ==
  /\ \A e \in Req :
       InFlight(e) =>
         /\ MapHas(chunkExtractionQueue, KeyOf(e))
         /\ MapHas(activeExtractions, req[e].movie)
         /\ req[e].chunk \in activeExtractions[req[e].movie]
  /\ \A e \in Req :
       (Settled(e) /\ req[e].pc = "done" /\ MapHas(chunkExtractionQueue, KeyOf(e))) =>
         chunkExtractionQueue[KeyOf(e)] # e
  /\ \A m \in Movies :
       (Idle /\ InFlightOf(m) = {}) =>
         /\ \A k \in DOMAIN chunkExtractionQueue : k[1] # m
         /\ MapHas(activeExtractions, m) => activeExtractions[m] = {}

\* C5: a request beyond the end of the file fails without a read and without a
\* retry, and no response to it is marked retryable.
C5_OutOfRangeIsFatal ==
  \A r \in Req :
    ext[r].err = "OutOfRange" =>
      /\ ext[r].reads = 0
      /\ ext[r].retryCount = 0
      /\ ext[r].st = "rejected"
      /\ \A i \in 1..Len(resp[r]) : resp[r][i].retry # "true"

\* C6: a chunk request whose chunk is in the store is answered from the store in
\* the step it arrives and changes nothing of the pipeline or of the handles.
C6_CacheHitBypassesPipeline ==
  [][\A r \in Req :
       (/\ req[r].pc = "new"
        /\ req'[r].pc # "new"
        /\ req'[r].route \in {"download_chunk", "download_chunk_parallel"}
        /\ chunkPath(req'[r].movie, ToText(req'[r].chunk)) \in chunkStore)
       => /\ req'[r].pc = "done"
          /\ resp'[r] = <<ChunkFromStore(req'[r].movie, ToText(req'[r].chunk))>>
          /\ UNCHANGED <<chunkExtractionQueue, activeExtractions, ext, torrents,
                         activeTorrents>>]_vars

\* C7: a request that waited for an extraction ends with that extraction's
\* outcome: the chunk's bytes when it succeeded, a failure when it failed.
C7_WaitersGetTheOutcome ==
  \A w \in Req :
    (req[w].att # 0 /\ req[w].pc = "done") =>
      /\ resp[w] # <<>>
      /\ ext[req[w].att].st = "resolved" =>
           /\ resp[w][1].status = 200
           /\ resp[w][1].src \in {"cached", "torrent"}
      /\ ext[req[w].att].st = "rejected" => resp[w][1].status = 500

\* the step in which extraction e fails terminally, and the step of its cleanup
FailsTerminally(e) == InFlight(e) /\ ext'[e].st = "rejected"
CleansUpAfterFailure(e) ==
  req[e].pc = "extracting" /\ ext[e].st = "rejected" /\ req'[e].pc = "done"
QueueEntry(q, k) == IF MapHas(q, k) THEN q[k] ELSE 0
HasSlot(a, m, c) == MapHas(a, m) /\ c \in a[m]

\* C8: the terminal failure of one extraction, and its cleanup, leave every other
\* extraction in flight as it was: its queue entry, its slot, its retry counter.
C8_FailureIsChunkScoped ==
  [][\A e, o \in Req :
       (e # o /\ InFlight(o) /\ (FailsTerminally(e) \/ CleansUpAfterFailure(e))) =>
         /\ ext'[o] = ext[o]
         /\ QueueEntry(chunkExtractionQueue', KeyOf(o)) = QueueEntry(chunkExtractionQueue, KeyOf(o))
         /\ HasSlot(activeExtractions', req[o].movie, req[o].chunk)
              <=> HasSlot(activeExtractions, req[o].movie, req[o].chunk)]_vars

Acquiring(h) == ~torrents[h].ready /\ ~torrents[h].failed

\* C9: no two handles of one movie are being acquired at the same time.
C9_OneAcquisitionPerMovie ==
  \A h1, h2 \in 1..Len(torrents) :
    (torrents[h1].movie = torrents[h2].movie /\ Acquiring(h1) /\ Acquiring(h2)) => h1 = h2

\* a step in which request r calls downloadTorrent for movie m
CallsDownloadTorrent(r, m) ==
  req[r].pc = "new" /\ req'[r].pc \in {"acquire", "init"} /\ req'[r].movie = m

\* C10: a call of downloadTorrent that finds a ready handle registered for the
\* movie resolves with that handle at once, opens no handle and leaves
\* activeTorrents as it is.
C10_ReadyHandleReturned ==
  [][\A r \in Req, m \in Movies :
       (/\ CallsDownloadTorrent(r, m)
        /\ MapHas(activeTorrents, m)
        /\ torrents[activeTorrents[m]].ready)
       => /\ req'[r].torrent = activeTorrents[m]
          /\ req'[r].dt = "resolved"
          /\ micro' = <<r>>
          /\ torrents' = torrents
          /\ activeTorrents' = activeTorrents]_vars

C10_Witness ==
  \E r \in Req :
    /\ req[r].route = "store_magnet"
    /\ req[r].dt = "resolved"
    /\ req[r].torrent # NoTorrent
    /\ torrents[req[r].torrent].by # r
    /\ torrents[req[r].torrent].ready

\* the step of the 60 s timer of the call of request r, which opened handle h
TimesOut(r, h) ==
  /\ req[r].dt = "pending"
  /\ req[r].torrent = h
  /\ torrents[h].by = r
  /\ Acquiring(h)
  /\ torrents' = torrents
  /\ req'[r].dt # "pending"
InMicro(r, q) == \E i \in 1..Len(q) : q[i] = r

\* C11: a call of downloadTorrent whose 60 s timer finds the handle neither ready
\* nor failed resolves with that handle, the timer leaves activeTorrents as it
\* is, and once the call has settled no event settles it again: its outcome
\* stays and its continuation is not queued a second time.
C11_TimeoutResolvesOnce ==
  [][/\ \A r \in Req, h \in 1..Len(torrents) :
          TimesOut(r, h) =>
            /\ req'[r].dt = "resolved"
            /\ req'[r].torrent = h
            /\ InMicro(r, micro')
            /\ activeTorrents' = activeTorrents
     /\ \A r \in Req :
          req[r].dt \in {"resolved", "rejected"} =>
            /\ req'[r].dt = req[r].dt
            /\ req'[r].torrent = req[r].torrent
            /\ (~InMicro(r, micro)) => ~InMicro(r, micro')]_vars

\* the timer resolved the call with a handle that failed afterwards
C11_Witness ==
  \E r \in Req :
    /\ req[r].dt = "resolved"
    /\ req[r].pc = "done"
    /\ req[r].torrent # NoTorrent
    /\ torrents[req[r].torrent].by = r
    /\ torrents[req[r].torrent].failed
    /\ ~torrents[req[r].torrent].ready

\* the step in which handle h fails
Fails(h) == ~torrents[h].failed /\ torrents'[h].failed

\* C12: the failure of a handle opened by downloadTorrent evicts that handle,
\* rejects the call that is acquiring it, and evicts no other handle
\* registered for the movie.
C12_FailureEvictsOwnHandleOnly ==
  [][\A h \in 1..Len(torrents) :
       (Fails(h) /\ torrents[h].kind = "downloadTorrent") =>
         LET m == torrents[h].movie
             r == torrents[h].by
         IN /\ (MapHas(activeTorrents, m) /\ activeTorrents[m] = h)
                 => ~MapHas(activeTorrents', m)
            /\ req[r].dt = "pending" => req'[r].dt = "rejected"
            /\ (MapHas(activeTorrents, m) /\ activeTorrents[m] # h)
                 => (MapHas(activeTorrents', m) /\ activeTorrents'[m] = activeTorrents[m])]_vars

\* the claimant list of an (item, chunk) pair, empty when the registry has no entry
ClaimList(reg, m, c) == IF MapHas(reg, m) /\ MapHas(reg[m], c) THEN reg[m][c] ELSE <<>>
Without(list, p) == SelectSeq(list, LAMBDA x : x # p)
Occurrences(list, p) == Cardinality({i \in 1..Len(list) : list[i] = p})
HasEmptyEntry(reg) == \E m \in DOMAIN reg : \E c \in DOMAIN reg[m] : reg[m][c] = <<>>
HasEmptyMovie(reg) == \E m \in DOMAIN reg : DOMAIN reg[m] = {}
\* the step of a request to the registry, answered by route op
Answers(op) == regBudget' = regBudget - 1 /\ regResp'.op = op

\* C13: after cleanup_peer for claimant c every claimant list is the list it was
\* without c, no list is left empty and no item is left without entries.
C13_CleanupRemovesAndPrunes ==
  [][Answers("cleanup_peer") =>
       /\ \A m \in Movies, c \in RegChunks :
            ClaimList(chunkRegistry', m, c)
              = Without(ClaimList(chunkRegistry, m, c), regResp'.peer)
       /\ ~HasEmptyEntry(chunkRegistry')
       /\ ~HasEmptyMovie(chunkRegistry')]_vars

\* a claim of p1 was removed and a claim of p2 is still there
C13_Witness ==
  /\ regResp.op = "cleanup_peer"
  /\ regResp.peer = "p1"
  /\ regResp.logged > 0
  /\ ClaimsOf(chunkRegistry, "p2") # {}

\* C14: no claimant is twice in the claimant list of an (item, chunk) pair, and
\* to register a claim that is held already changes nothing in the registry,
\* by a single registration or in a batch.
C14_ClaimantOncePerChunk ==
  [][/\ \A m \in Movies, c \in RegChunks, p \in Peers :
          /\ Occurrences(ClaimList(chunkRegistry', m, c), p) <= 1
          /\ AddClaim(AddClaim(chunkRegistry', m, c, p), m, c, p)
               = AddClaim(chunkRegistry', m, c, p)
          /\ BatchRegistry(chunkRegistry', m, <<c, c>>, p)
               = AddClaim(chunkRegistry', m, c, p)
     /\ (Answers("register_chunk") /\ regResp'.logged = 0)
          => chunkRegistry' = chunkRegistry
     /\ (Answers("register_chunks_batch") /\ regResp'.registered = 0)
          => chunkRegistry' = chunkRegistry]_vars

\* a claim that was held already has been registered again
C14_Witness ==
  /\ regResp.op = "register_chunk"
  /\ regResp.logged = 0
  /\ ClaimsOf(chunkRegistry, regResp.peer) # {}
  /\ regBudget = 0

\* C15: no (item, chunk) entry of the registry holds an empty claimant list.
C15_NoEmptyClaimSet == ~HasEmptyEntry(chunkRegistry)

\* the step of the sweep: no request is answered and no time passes
Sweeps == regBudget' = regBudget /\ now' = now
Claims(reg, p) == {mc \in Movies \X RegChunks : includes(ClaimList(reg, mc[1], mc[2]), p)}

\* C16: a sweep removes the peers with now - lastSeen > staleThreshold from the
\* peer table and from every claimant list, and leaves every other peer's
\* record and claims as they were.
C16_SweepRemovesExactlyTheStale ==
  [][Sweeps =>
       \A p \in Peers :
         IF MapHas(peerConnections, p) /\ now - peerConnections[p].lastSeen > staleThreshold
           THEN /\ ~MapHas(peerConnections', p)
                /\ Claims(chunkRegistry', p) = {}
           ELSE /\ MapHas(peerConnections', p) <=> MapHas(peerConnections, p)
                /\ MapHas(peerConnections, p) => peerConnections'[p] = peerConnections[p]
                /\ Claims(chunkRegistry', p) = Claims(chunkRegistry, p)]_vars

\* a sweep has removed a peer while another is exactly staleThreshold old
C16_Witness ==
  /\ HasEmptyEntry(chunkRegistry)
  /\ \E p \in DOMAIN peerConnections :
       /\ now - peerConnections[p].lastSeen = staleThreshold
       /\ Claims(chunkRegistry, p) # {}

\* C17: after a registration by a peer, single or in a batch, the peer's
\* lastSeen is the time of that registration.
C17_RegistrationRefreshesLastSeen ==
  [][((Answers("register_chunk") \/ Answers("register_chunks_batch"))
        /\ regResp'.status = 200)
       => /\ MapHas(peerConnections', regResp'.peer)
          /\ peerConnections'[regResp'.peer].lastSeen = now]_vars

\* the tasks waiting in workerQueue
Waiting == {workerQueue[i] : i \in 1..Len(workerQueue)}

\* C18: the queue holds the tasks in the order of their submission, and no task
\* submitted after a task that still waits in the queue has been assigned to a worker.
C18_NoTaskOvertakesTheQueue ==
  /\ \A i, j \in 1..Len(workerQueue) : i < j => workerQueue[i] < workerQueue[j]
  /\ \A t \in Waiting : \A u \in TaskIds : u > t => ~tasks[u].assigned

\* C19: no worker is idle while a task waits in workerQueue.
C19_NoIdleWorkerWhileQueued ==
  workerQueue # <<>> => IdleSlots(SS) = {}

\* C20: a task that waits in workerQueue is eventually assigned to a worker, also when
\* the tasks before it run into their 30 s timeout.
C20_QueuedTasksAreEventuallyAssigned ==
  \A t \in TaskIds : (t \in Waiting) ~> tasks[t].assigned

\* the step is the 'error' event of a worker thread
Crashes == schedBudget'.crashes < schedBudget.crashes

\* C21: when a worker thread crashes while its record holds a task, the promise of that
\* task is rejected in the same step.
C21_CrashRejectsInFlightTask ==
  [][Crashes =>
       \A k \in 1..Len(recs) :
         (/\ recs[k].thread # "dead"
          /\ recs'[k].thread = "dead"
          /\ recs[k].currentTask # NoTask
          /\ tasks[recs[k].currentTask].promise = "pending")
         => tasks'[recs[k].currentTask].promise = "rejected"]_vars

\* "100.0": the percentage of a buffer whose every slot is filled
Complete == toFixed1(1, 1)

\* C22: once a stream of totalChunks chunks is started on workers that do not fail,
\* getStreamingStats eventually reports availableChunks = totalChunks and 100.0 percent.
C22_StreamEventuallyComplete ==
  \A n \in 1..MaxFairChunks :
    (Len(streams) = 1 /\ streams[1].stats.totalChunks = n)
      ~> (/\ getStreamingStats(SS, MovieA).availableChunks = n
          /\ getStreamingStats(SS, MovieA).completedPercentage = Complete)

Elements(q) == {q[i] : i \in 1..Len(q)}
Increasing(q) == \A i, j \in 1..Len(q) : i < j => q[i] < q[j]

\* C23: the strategy of a stream of totalChunks chunks has exactly the indices
\* 0..min(5,totalChunks)-1 as priority chunks and exactly 5..totalChunks-1 as background
\* chunks, each list increasing, every index once, and the answer of
\* startParallelStream reports the two lengths.
C23_StrategyPartitionsTheChunks ==
  \A s \in 1..Len(streams) :
    LET st == streams[s]
        n == st.stats.totalChunks
    IN /\ Elements(st.priorityChunks) = 0..((IF n < 5 THEN n ELSE 5) - 1)
       /\ Elements(st.backgroundChunks) = 5..(n - 1)
       /\ Increasing(st.priorityChunks)
       /\ Increasing(st.backgroundChunks)
       /\ Len(st.priorityChunks) + Len(st.backgroundChunks) = n
       /\ st.stats.priorityChunks = Len(st.priorityChunks)
       /\ st.stats.backgroundChunks = Len(st.backgroundChunks)

C23_Witness ==
  /\ Len(streams) = 1
  /\ streams[1].stats.totalChunks = MaxTotalChunks
  /\ streams[1].stats.priorityChunks = 5
  /\ streams[1].stats.backgroundChunks = MaxTotalChunks - 5

\* the tasks issued by stream s; task numbers follow the order of submission
IssuedBy(s) == {t \in SubmittedTasks : tasks[t].stream = s}
IsPriority(t) == tasks[t].chunkIndex \in Elements(streams[tasks[t].stream].priorityChunks)
IsBackground(t) == tasks[t].chunkIndex \in Elements(streams[tasks[t].stream].backgroundChunks)

\* C24: within one stream no background chunk is issued before a priority chunk, a
\* background chunk is issued only after every priority chunk has been issued, and the
\* priority chunks are issued in increasing order of their index.
C24_PriorityIssuedBeforeBackground ==
  \A s \in 1..Len(streams) :
    \A u \in IssuedBy(s) :
      /\ IsBackground(u) =>
           \A c \in Elements(streams[s].priorityChunks) :
             \E t \in IssuedBy(s) : t < u /\ tasks[t].chunkIndex = c
      /\ IsPriority(u) =>
           \A t \in IssuedBy(s) :
             t < u => (IsPriority(t) /\ tasks[t].chunkIndex < tasks[u].chunkIndex)

\* a background chunk is issued while an earlier chunk has already been answered
C24_Witness ==
  \E t, u \in IssuedBy(1) :
    /\ t < u
    /\ IsBackground(u)
    /\ tasks[t].promise = "resolved"

IsBytes(v) == v \notin {NoData, Hole}
SlotOf(buffers, m, i) ==
  IF MapHas(buffers, m) /\ i \in DOMAIN buffers[m] THEN buffers[m][i] ELSE NoData

Pool == {workers[i] : i \in DOMAIN workers}

\* C26: in every state the statistics of a movie are the length of its buffer, the
\* number of its slots that hold bytes, the number of busy workers of the pool, the
\* size of the pool and the length of workerQueue.
C26_StatsAreDerived ==
  \A m \in Movies :
    LET stats == getStreamingStats(SS, m)
    IN /\ stats.totalChunks = (IF MapHas(streamBuffer, m) THEN Cardinality(DOMAIN streamBuffer[m])
                               ELSE 0)
       /\ stats.availableChunks =
            Cardinality({i \in 0..(MaxSchedChunk + 1) : IsBytes(SlotOf(streamBuffer, m, i))})
       /\ stats.workersActive = Cardinality({k \in Pool : recs[k].busy})
       /\ stats.totalWorkers = Cardinality(DOMAIN workers)
       /\ stats.queueLength = Len(workerQueue)

\* some chunks are stored, others are missing, and both workers are busy
C26_Witness ==
  LET stats == getStreamingStats(SS, MovieA)
  IN /\ stats.availableChunks > 0
     /\ stats.availableChunks < stats.totalChunks
     /\ stats.workersActive = maxWorkers

StoreMagnetRequests == {r \in Req : req[r].route = "store_magnet"}
CarriesBoth(r) == req[r].movie # NoMovie /\ req[r].link # NoLink
Arrives(r) == req[r].route = "none" /\ req'[r].route = "store_magnet"

\* C27: a store_magnet request with movie and magnetLink records the link when it
\* arrives and every answer it gets is success: true; a request that misses a field is
\* answered 400 at once and leaves magnetLinks as it was.
C27_StoreMagnetAlwaysRecords ==
  [][\A r \in Req :
       /\ Arrives(r) =>
            IF req'[r].movie # NoMovie /\ req'[r].link # NoLink
              THEN MapHas(magnetLinks', req'[r].movie)
                   /\ magnetLinks'[req'[r].movie] = req'[r].link
              ELSE magnetLinks' = magnetLinks
                   /\ Len(resp'[r]) = 1 /\ resp'[r][1].status = 400
       /\ (req'[r].route = "store_magnet" /\ req'[r].movie # NoMovie /\ req'[r].link # NoLink)
            => \A i \in 1..Len(resp'[r]) : resp'[r][i] = MagnetStored
    ]_vars

\* one request was answered success: true after its acquisition failed, another was
\* rejected for a missing field
C27_Witness ==
  /\ \E r \in StoreMagnetRequests :
       CarriesBoth(r) /\ resp[r] = <<MagnetStored>> /\ req[r].dt = "rejected"
  /\ \E r \in StoreMagnetRequests :
       ~CarriesBoth(r) /\ Len(resp[r]) = 1 /\ resp[r][1].status = 400

\* C28: a worker record gives up its current task only in a step that settles that
\* task (its completion, its failure or its timeout); a 'progress' message leaves the
\* record busy with the same task.
C28_BusyUntilTheTaskEnds ==
  [][\A k \in 1..Len(recs) :
       (recs[k].currentTask # NoTask /\ recs'[k].currentTask # recs[k].currentTask)
         => tasks'[recs[k].currentTask].promise # "pending"]_vars

\* C29: the promise of every submitted task is eventually resolved or rejected.
C29_EveryTaskIsSettled ==
  \A t \in TaskIds :
    (tasks[t].promise = "pending") ~> (tasks[t].promise \in {"resolved", "rejected"})

NoneInFlight ==
  \A r \in Req :
    /\ req[r].pc \in {"new", "done"}
    /\ ext[r].st \in {"none", "resolved", "rejected"}
    /\ ext[r].reads <= maxRetries + 1

\* C30: every call of extractChunkWithConcurrencyControl ends: from some point on no
\* request waits for a slot or for an extraction, and every extraction that was started
\* has succeeded or has failed after at most maxRetries + 1 reads.
C30_EveryExtractionCallSettles == <>[]NoneInFlight

\* a request waits for a slot while an extraction has failed for good and another
\* request has its chunk
C30_Witness ==
  /\ \E r \in Req : req[r].pc = "polling"
  /\ \E e \in Req : ext[e].st = "rejected" /\ ext[e].reads = maxRetries + 1
  /\ \E r \in Req : req[r].pc = "done" /\ resp[r] # <<>> /\ resp[r][1].status = 200

\* C31: once the buffer of an item exists, no step changes its length and no step
\* empties a slot that holds bytes.
C31_BufferKeepsLengthAndBytes ==
  [][\A m \in Movies :
       (MapHas(streamBuffer, m) /\ MapHas(streamBuffer', m))
         => /\ DOMAIN streamBuffer'[m] = DOMAIN streamBuffer[m]
            /\ \A i \in DOMAIN streamBuffer[m] :
                 IsBytes(streamBuffer[m][i]) => IsBytes(SlotOf(streamBuffer', m, i))
    ]_vars

\* C32: a task of (item, i) whose promise is resolved finds the bytes of chunk i in
\* slot i of the item's buffer: only the completion of (item, i) resolves it.
C32_ResolvedOnlyWhenStored ==
  \A t \in SubmittedTasks :
    tasks[t].promise = "resolved"
      => SlotOf(streamBuffer, tasks[t].movieId, tasks[t].chunkIndex)
           = ChunkData(tasks[t].movieId, tasks[t].chunkIndex)

\* the timers that fire in a step
Expired == timers \ timers'

\* C33: the expiry of the timer of a task that has been resolved changes neither the
\* promise of any task nor any worker record.
C33_TimerTouchesOnlyItsTask ==
  [][\A tm \in Expired :
       tasks[tm.task].promise = "resolved"
         => /\ \A t \in TaskIds : tasks'[t].promise = tasks[t].promise
            /\ recs' = recs]_vars

\* the tasks that were posted to a thread and that the thread has not finished
Executing == {<<k, i>> \in (1..Len(inbox)) \X TaskIds : i <= Len(inbox[k])}

\* C34: every worker thread has at most one task it has not finished, and at most
\* maxWorkers tasks are executing.
C34_OneTaskPerThread ==
  /\ \A k \in 1..Len(inbox) : Len(inbox[k]) <= 1
  /\ Cardinality(Executing) <= maxWorkers

\* the threads of a slot that have neither crashed nor been terminated
LiveThreads(rs, slot) ==
  {k \in 1..Len(rs) : rs[k].slot = slot /\ rs[k].thread \in {"running", "hung"}}

\* C35: after every step each slot has at most one live thread, and no step gives a
\* task to a record whose thread has crashed or has been terminated.
C35_OneLiveThreadPerSlot ==
  [][/\ \A slot \in Slots : Cardinality(LiveThreads(recs', slot)) <= 1
     /\ \A k \in 1..Len(recs) :
          (recs[k].thread = "dead" /\ recs'[k].currentTask # recs[k].currentTask)
            => recs'[k].currentTask = NoTask]_vars

\* how often engine e is in the pool, and the stream ids that refer to it
TimesInPool(e) == Cardinality({i \in 1..Len(availableEngines) : availableEngines[i] = e})
StreamsOf(e) == {id \in DOMAIN streamingEngines : streamingEngines[id] = e}
BeingStarted(e) == \E h \in starting : h.engine = e

\* C36: the pool holds at most maxConcurrentStreams entries and no engine twice, an
\* engine serves at most one stream, and every engine is in exactly one place: in the
\* pool, under a stream id, or in the hands of a start handler at its await.
C36_EnginesArePartitioned ==
  /\ Len(availableEngines) <= maxConcurrentStreams
  /\ \A e \in Engines :
       /\ TimesInPool(e) <= 1
       /\ Cardinality(StreamsOf(e)) <= 1
       /\ (TimesInPool(e) = 1) # (StreamsOf(e) # {} \/ BeingStarted(e))

\* an engine that is in no place from which the code can return it to the pool
Lost(e) ==
  /\ TimesInPool(e) = 0
  /\ StreamsOf(e) = {}
  /\ ~BeingStarted(e)
  /\ \A i \in 1..Len(readers) : readers[i].engine = e => readers[i].stage = "done"

\* C37: from some point on, every engine is in the pool or belongs to a stream that
\* is being started, is stored under its stream id or is being played.
C37_EnginesComeBack == <>[](\A e \in Engines : ~Lost(e))

\* C38: the handler chain of a chunk request writes at most one response, and exactly
\* one by the time the request is done.
C38_ExactlyOneResponse ==
  \A r \in Req :
    req[r].route \in {"download_chunk_parallel", "download_chunk"}
      => /\ Len(resp[r]) <= 1
         /\ req[r].pc = "done" => Len(resp[r]) = 1

\* C39: every peer that is a claimant of some chunk has a record in peerConnections,
\* the table the sweep of stale peers goes through.
C39_ClaimantsHaveLivenessRecords ==
  \A p \in Peers : Claims(chunkRegistry, p) # {} => MapHas(peerConnections, p)

\* the slots of the buffer of stream s that hold bytes
Occupied(buffers, m) ==
  {i \in (IF MapHas(buffers, m) THEN DOMAIN buffers[m] ELSE {}) : IsBytes(buffers[m][i])}
\* readyChunks of the streamReady event: Math.min(5, strategy.priorityChunks.length)
readyChunks(st) == Min({PriorityCount, Len(st.priorityChunks)})

\* C40: in the step that emits streamReady for a stream, at least readyChunks slots of
\* the buffer of its item hold bytes.
C40_ReadyChunksAreStored ==
  [][\A s \in 1..Len(streams) :
       (~streams[s].ready /\ streams'[s].ready)
         => Cardinality(Occupied(streamBuffer, streams[s].movieId)) >= readyChunks(streams[s])
    ]_vars

============================================================================
